---- MODULE Spec2Model ----
(***************************************************************************)
(* A model of aparte: the command line tokenizer (src/command.rs:          *)
(* Command::parse_with_cursor, Command::escape and Command::assemble) and  *)
(* the terminal UI (src/plugins/ui.rs: the view tree with its measure and  *)
(* layout passes, BufferedWin, WinBar and UIPlugin).                       *)
(*                                                                         *)
(* A string is a sequence of characters, a character a one-letter string.  *)
(* An Option<T> is a sequence of length at most one: <<>> is None and      *)
(* <<v>> is Some(v).                                                       *)
(***************************************************************************)
EXTENDS Integers, Sequences, FiniteSets, TLC

VARIABLES
    string,         \* parse_with_cursor's `string` argument
    cursor,         \* parse_with_cursor's `cursor` argument
    pos,            \* characters the `chars` iterator has yielded
    state,          \* the tokenizer's `state`
    tokens,         \* `tokens`
    token,          \* `token`
    string_cursor,  \* `string_cursor`
    token_cursor,   \* `token_cursor`: Option<usize>
    pc,             \* "assemble", "loop", "after_loop" or "done"
    result,         \* what parse_with_cursor returned, once pc = "done"
    args,           \* the Command.args handed to assemble
    root,           \* the view tree measure and layout are called on
    build,          \* "debug", "release", or "unknown" while no u16
                    \* operation has overflowed yet
    layout_pc,      \* "built", "measured", "laid_out", or "measure_panicked",
                    \* "layout_panicked" once a pass has panicked
    measure_args,   \* <<width_spec, height_spec>> of the last measure
    layout_args,    \* <<top, left>> of the last layout
    run,            \* how many measure+layout passes have started
    first_run,      \* Some(the tree as the first pass left it)
    win,            \* a View<BufferedWin>: h, buf, history, view, next_line,
                    \* and screen, the lines its rows show on the terminal
    win_pc,         \* "ready", or "panicked" once a call has panicked
    redrawn,        \* whether the last call on win repainted it
    call,           \* the last call on win: its name and arguments
    ui,             \* the UIPlugin: windows, windows_index, current,
                    \* win_bar, title_bar, frame
    ui_pc,          \* "ready", or "panicked" once a handler has panicked
    event,          \* the last event on_event handled
    input,          \* the View<Input>: buf, tmp_buf, password, history,
                    \* history_index
    password_command, \* UIPlugin.password_command: Option<Command>
    queue,          \* KeyCodec.queue
    decoding,       \* whether a decode call is going through its buffer
    pushed,         \* how many items decode has pushed on queue
    returned,       \* the ranks of the items decode has returned, in order
    keys_pc,        \* "ready", or "panicked" once decode has panicked
    handler,        \* the entry point being run: "init", "on_event",
                    \* "decode", "read_password", or "idle"
    frames,         \* its call stack: per call, the steps still to run
    held,           \* live borrows of the shared screen
    screen_pc       \* "ready", or "panicked" once borrow_mut has panicked

parseVars == <<string, cursor, pos, state, tokens, token, string_cursor,
               token_cursor, pc, result, args>>
layoutVars == <<root, build, layout_pc, measure_args, layout_args, run,
                first_run>>
winVars == <<win, win_pc, redrawn, call>>
uiVars == <<ui, ui_pc, event>>
keysVars == <<input, password_command, queue, decoding, pushed, returned,
             keys_pc>>
screenVars == <<handler, frames, held, screen_pc>>
vars == <<parseVars, layoutVars, winVars, uiVars, keysVars, screenVars>>

\* No view tree exists while the tokenizer alone is exercised.
NoLayout ==
    /\ root = <<>>
    /\ build = "unknown"
    /\ layout_pc = "none"
    /\ measure_args = <<>>
    /\ layout_args = <<>>
    /\ run = 0
    /\ first_run = <<>>

\* No window exists either.
NoWin ==
    /\ win = <<>>
    /\ win_pc = "none"
    /\ redrawn = FALSE
    /\ call = <<>>

\* The UIPlugin is not built.
NoUI ==
    /\ ui = <<>>
    /\ ui_pc = "none"
    /\ event = <<>>

\* No KeyCodec exists and no key is read.
NoKeys ==
    /\ input = <<>>
    /\ password_command = <<>>
    /\ queue = <<>>
    /\ decoding = FALSE
    /\ pushed = 0
    /\ returned = <<>>
    /\ keys_pc = "none"

\* No handler runs and the screen is not borrowed.
NoScreen ==
    /\ handler = "none"
    /\ frames = <<>>
    /\ held = 0
    /\ screen_pc = "none"

\* ------------------------------------------------------------ bounds
MaxLen == 5       \* longest input line
MaxCursor == 6    \* largest cursor offset
MaxArgs == 2      \* most arguments of an assembled Command
MaxArgChars == 3  \* most characters in all arguments of an assembled Command

\* ------------------------------------------------------------ characters
Slash == "/"
Space == " "
SimpleQuote == "'"
DoubleQuote == "\""
Backslash == "\\"
Ordinary == "a"
\* chars.next() returning None
NoChar == "None"

Alphabet == {Slash, Space, SimpleQuote, DoubleQuote, Backslash, Ordinary}
ArgAlphabet == {Space, SimpleQuote, DoubleQuote, Backslash, Ordinary}

None == <<>>
Some(v) == <<v>>

SeqsUpTo(S, n) == UNION {[1..k -> S] : k \in 0..n}

\* ------------------------------------------------------------ the tokenizer
State == {"Initial", "Delimiter", "SimplyQuoted", "DoublyQuoted", "Unquoted",
          "UnquotedEscaped", "SimplyQuotedEscaped", "DoublyQuotedEscaped"}

\* What one arm of `state = match state { ... }` does: go on in state s,
\* leave the loop, or return an error.
Go(s, tk, tks) == [kind |-> "go", state |-> s, token |-> tk, tokens |-> tks, err |-> ""]
Break(tk, tks) == [kind |-> "break", state |-> "", token |-> tk, tokens |-> tks, err |-> ""]
Err(msg, tk, tks) == [kind |-> "err", state |-> "", token |-> tk, tokens |-> tks, err |-> msg]

\* Initial, had it skipped blanks before the marker.
Initial_SkipsBlanks(c, tk, tks) ==
    CASE c = Slash -> Go("Delimiter", tk, tks)
      [] c = Space -> Go("Initial", tk, tks)
      [] OTHER -> Err("Missing starting /", tk, tks)

Initial(c, tk, tks) ==
    IF c = Slash THEN Go("Delimiter", tk, tks)
    ELSE Err("Missing starting /", tk, tks)

\* Delimiter, had a space emitted the (empty) current argument as Unquoted does.
Delimiter_EmitsEmpty(c, tk, tks) ==
    CASE c = Space -> Go("Delimiter", <<>>, Append(tks, tk))
      [] c = SimpleQuote -> Go("SimplyQuoted", tk, tks)
      [] c = DoubleQuote -> Go("DoublyQuoted", tk, tks)
      [] c = Backslash -> Go("UnquotedEscaped", tk, tks)
      [] c = NoChar -> Break(tk, tks)
      [] OTHER -> Go("Unquoted", Append(tk, c), tks)

Delimiter(c, tk, tks) ==
    CASE c = Space -> Go("Delimiter", tk, tks)
      [] c = SimpleQuote -> Go("SimplyQuoted", tk, tks)
      [] c = DoubleQuote -> Go("DoublyQuoted", tk, tks)
      [] c = Backslash -> Go("UnquotedEscaped", tk, tks)
      [] c = NoChar -> Break(tk, tks)
      [] OTHER -> Go("Unquoted", Append(tk, c), tks)

\* SimplyQuoted, had either quote closed the span.
SimplyQuoted_AnyQuoteCloses(c, tk, tks) ==
    CASE c \in {SimpleQuote, DoubleQuote} -> Go("Unquoted", tk, tks)
      [] c = Backslash -> Go("SimplyQuotedEscaped", tk, tks)
      [] c = NoChar -> Err("Missing closing quote", tk, tks)
      [] OTHER -> Go("SimplyQuoted", Append(tk, c), tks)

SimplyQuoted(c, tk, tks) ==
    CASE c = SimpleQuote -> Go("Unquoted", tk, tks)
      [] c = Backslash -> Go("SimplyQuotedEscaped", tk, tks)
      [] c = NoChar -> Err("Missing closing quote", tk, tks)
      [] OTHER -> Go("SimplyQuoted", Append(tk, c), tks)

DoublyQuoted(c, tk, tks) ==
    CASE c = DoubleQuote -> Go("Unquoted", tk, tks)
      [] c = Backslash -> Go("DoublyQuotedEscaped", tk, tks)
      [] c = NoChar -> Err("Missing closing quote", tk, tks)
      [] OTHER -> Go("DoublyQuoted", Append(tk, c), tks)

Unquoted(c, tk, tks) ==
    CASE c = SimpleQuote -> Go("SimplyQuoted", tk, tks)
      [] c = DoubleQuote -> Go("DoublyQuoted", tk, tks)
      [] c = Backslash -> Go("UnquotedEscaped", tk, tks)
      [] c = Space -> Go("Delimiter", <<>>, Append(tks, tk))
      [] c = NoChar -> Break(tk, Append(tks, tk))
      [] OTHER -> Go("Unquoted", Append(tk, c), tks)

UnquotedEscaped(c, tk, tks) ==
    IF c = NoChar THEN Err("Missing escaped char", tk, tks)
    ELSE Go("Unquoted", Append(tk, c), tks)

\* SimplyQuotedEscaped, had it gone back to Unquoted as UnquotedEscaped does.
SimplyQuotedEscaped_ToUnquoted(c, tk, tks) ==
    IF c = NoChar THEN Err("Missing escaped char", tk, tks)
    ELSE Go("Unquoted", Append(tk, c), tks)

SimplyQuotedEscaped(c, tk, tks) ==
    IF c = NoChar THEN Err("Missing escaped char", tk, tks)
    ELSE Go("SimplyQuoted", Append(tk, c), tks)

DoublyQuotedEscaped(c, tk, tks) ==
    IF c = NoChar THEN Err("Missing escaped char", tk, tks)
    ELSE Go("DoublyQuoted", Append(tk, c), tks)

\* state = match state { ... }
Match(s, c, tk, tks) ==
    CASE s = "Initial" -> Initial(c, tk, tks)
      [] s = "Delimiter" -> Delimiter(c, tk, tks)
      [] s = "SimplyQuoted" -> SimplyQuoted(c, tk, tks)
      [] s = "DoublyQuoted" -> DoublyQuoted(c, tk, tks)
      [] s = "Unquoted" -> Unquoted(c, tk, tks)
      [] s = "UnquotedEscaped" -> UnquotedEscaped(c, tk, tks)
      [] s = "SimplyQuotedEscaped" -> SimplyQuotedEscaped(c, tk, tks)
      [] s = "DoublyQuotedEscaped" -> DoublyQuotedEscaped(c, tk, tks)

\* The bookkeeping that ends an iteration of the loop: latch the number of
\* tokens when the offset has been counted down to 0, count down otherwise.
\* TrackCursor without the `token_cursor.is_none()` test.
TrackCursor_NoLatch(sc, tc, c, tks) ==
    IF sc = 0
    THEN [string_cursor |-> sc,
          token_cursor |-> IF c # NoChar THEN Some(Len(tks)) ELSE None]
    ELSE [string_cursor |-> sc - 1, token_cursor |-> tc]

TrackCursor(sc, tc, c, tks) ==
    IF sc = 0
    THEN [string_cursor |-> sc,
          token_cursor |-> IF tc = None
                           THEN (IF c # NoChar THEN Some(Len(tks)) ELSE None)
                           ELSE tc]
    ELSE [string_cursor |-> sc - 1, token_cursor |-> tc]

\* a - b on usize: the difference, or <<>> when it would be negative (a panic
\* in a debug build, a wrapped value in a release build).
CheckedSub(a, b) == IF a >= b THEN Some(a - b) ELSE None

\* FinalCursor without the Delimiter arm.
FinalCursor_AlwaysMinusOne(tc, s, tks) ==
    IF tc = None THEN CheckedSub(Len(tks), 1) ELSE tc

\* FinalCursor without the `- 1`.
FinalCursor_NoMinusOne(tc, s, tks) ==
    IF tc = None THEN Some(Len(tks)) ELSE tc

\* The token cursor after the loop, as an Option: None when `tokens.len() - 1`
\* underflows.
FinalCursor(tc, s, tks) ==
    IF tc = None
    THEN (IF s = "Delimiter" THEN Some(Len(tks)) ELSE CheckedSub(Len(tks), 1))
    ELSE tc

\* MakeCommand without the arm for no token.
MakeCommand_NoPlaceholder(tks, tc) ==
    [kind |-> "Ok", args |-> tks, cursor |-> tc, err |-> ""]

\* The Command returned.
MakeCommand(tks, tc) ==
    IF Len(tks) > 0
    THEN [kind |-> "Ok", args |-> tks, cursor |-> tc, err |-> ""]
    ELSE [kind |-> "Ok", args |-> << <<>> >>, cursor |-> tc, err |-> ""]

Failure(msg) == [kind |-> "Err", args |-> <<>>, cursor |-> 0, err |-> msg]
Underflow == [kind |-> "Underflow", args |-> <<>>, cursor |-> 0, err |-> ""]
Pending == [kind |-> "Pending", args |-> <<>>, cursor |-> 0, err |-> ""]

NextChar == IF pos < Len(string) THEN string[pos + 1] ELSE NoChar

\* One iteration of the loop of parse_with_cursor.
Step ==
    /\ pc = "loop"
    /\ LET c == NextChar
           r == Match(state, c, token, tokens)
           t == TrackCursor(string_cursor, token_cursor, c, r.tokens)
       IN /\ pos' = IF c = NoChar THEN pos ELSE pos + 1
          /\ token' = r.token
          /\ tokens' = r.tokens
          /\ state' = IF r.kind = "go" THEN r.state ELSE state
          /\ string_cursor' = IF r.kind = "go" THEN t.string_cursor ELSE string_cursor
          /\ token_cursor' = IF r.kind = "go" THEN t.token_cursor ELSE token_cursor
          /\ pc' = CASE r.kind = "go" -> "loop"
                     [] r.kind = "break" -> "after_loop"
                     [] r.kind = "err" -> "done"
          /\ result' = IF r.kind = "err" THEN Failure(r.err) ELSE result
    /\ UNCHANGED <<string, cursor, args>>
    /\ UNCHANGED <<layoutVars, winVars, uiVars, keysVars, screenVars>>

\* What follows the loop of parse_with_cursor.
Finish ==
    /\ pc = "after_loop"
    /\ LET tc == FinalCursor(token_cursor, state, tokens)
       IN /\ result' = IF tc = None THEN Underflow ELSE MakeCommand(tokens, tc[1])
          /\ token_cursor' = tc
    /\ pc' = "done"
    /\ UNCHANGED <<string, cursor, pos, state, tokens, token, string_cursor, args>>
    /\ UNCHANGED <<layoutVars, winVars, uiVars, keysVars, screenVars>>

\* parse_with_cursor(string, cursor) is entered.
ParseEntry(s, k) ==
    /\ string = s
    /\ cursor = k
    /\ pos = 0
    /\ state = "Initial"
    /\ tokens = <<>>
    /\ token = <<>>
    /\ string_cursor = k
    /\ token_cursor = None
    /\ result = Pending

InitParse ==
    /\ \E s \in SeqsUpTo(Alphabet, MaxLen), k \in 0..MaxCursor : ParseEntry(s, k)
    /\ pc = "loop"
    /\ args = <<>>
    /\ NoLayout
    /\ NoWin
    /\ NoUI
    /\ NoKeys
    /\ NoScreen

NextParse == Step \/ Finish

SpecParse == InitParse /\ [][NextParse]_vars

\* ------------------------------------------------------------ assemble
\* EscapeChar, had the first quote character chosen its own kind to enclose
\* the argument.
EscapeChar_SameQuote(c, quote) ==
    CASE c = Backslash -> [out |-> <<Backslash, Backslash>>, quote |-> quote]
      [] c = Space ->
            [out |-> <<Space>>,
             quote |-> IF quote = None THEN Some(Space) ELSE quote]
      [] c = SimpleQuote ->
            (CASE quote = Some(SimpleQuote) ->
                    [out |-> <<Backslash, SimpleQuote>>, quote |-> quote]
               [] quote = Some(DoubleQuote) ->
                    [out |-> <<SimpleQuote>>, quote |-> quote]
               [] OTHER ->
                    [out |-> <<Backslash, SimpleQuote>>, quote |-> Some(SimpleQuote)])
      [] c = DoubleQuote ->
            (CASE quote = Some(SimpleQuote) ->
                    [out |-> <<DoubleQuote>>, quote |-> quote]
               [] quote = Some(DoubleQuote) ->
                    [out |-> <<Backslash, DoubleQuote>>, quote |-> quote]
               [] OTHER ->
                    [out |-> <<Backslash, DoubleQuote>>, quote |-> Some(DoubleQuote)])
      [] OTHER -> [out |-> <<c>>, quote |-> quote]

\* One arm of the match in escape's loop: the text appended to `escaped`
\* and the new value of `quote` (an Option<char>; Some(' ') stands for "a
\* space was seen, no quote character yet").
EscapeChar(c, quote) ==
    CASE c = Backslash -> [out |-> <<Backslash, Backslash>>, quote |-> quote]
      [] c = Space ->
            [out |-> <<Space>>,
             quote |-> IF quote = None THEN Some(Space) ELSE quote]
      [] c = SimpleQuote ->
            (CASE quote = Some(SimpleQuote) ->
                    [out |-> <<Backslash, SimpleQuote>>, quote |-> quote]
               [] quote = Some(DoubleQuote) ->
                    [out |-> <<SimpleQuote>>, quote |-> quote]
               [] OTHER ->
                    [out |-> <<SimpleQuote>>, quote |-> Some(DoubleQuote)])
      [] c = DoubleQuote ->
            (CASE quote = Some(SimpleQuote) ->
                    [out |-> <<DoubleQuote>>, quote |-> quote]
               [] quote = Some(DoubleQuote) ->
                    [out |-> <<Backslash, DoubleQuote>>, quote |-> quote]
               [] OTHER ->
                    [out |-> <<DoubleQuote>>, quote |-> Some(SimpleQuote)])
      [] OTHER -> [out |-> <<c>>, quote |-> quote]

\* escape's loop over arg.chars(), from character i on.
RECURSIVE EscapeLoop(_, _, _, _)
EscapeLoop(arg, i, quote, escaped) ==
    IF i > Len(arg) THEN [quote |-> quote, escaped |-> escaped]
    ELSE LET e == EscapeChar(arg[i], quote)
         IN EscapeLoop(arg, i + 1, e.quote, escaped \o e.out)

\* What escape does after its loop: a space alone asks for double quotes;
\* wrap in the chosen quote, if any.
EscapeWrap(quote, escaped) ==
    LET q == IF quote = Some(Space) THEN Some(DoubleQuote) ELSE quote
    IN IF q = None THEN escaped ELSE <<q[1]>> \o escaped \o <<q[1]>>

escape(arg) ==
    LET l == EscapeLoop(arg, 1, None, <<>>)
    IN EscapeWrap(l.quote, l.escaped)

\* assemble's loop over self.args, from argument i on.
RECURSIVE AssembleLoop(_, _, _, _)
AssembleLoop(as, i, first, command) ==
    IF i > Len(as) THEN command
    ELSE AssembleLoop(as, i + 1, FALSE,
                      (IF first THEN command ELSE Append(command, Space))
                          \o escape(as[i]))

assemble(as) == AssembleLoop(as, 1, TRUE, <<Slash>>)

\* The strings of at most n characters.
ArgStrings(n) == SeqsUpTo(ArgAlphabet, n)

\* The lists of exactly k arguments holding at most n characters in all.
RECURSIVE ArgLists(_, _)
ArgLists(k, n) ==
    IF k = 0 THEN {<<>>}
    ELSE UNION {{<<a>> \o rest : rest \in ArgLists(k - 1, n - Len(a))} :
                a \in ArgStrings(n)}

\* command.assemble() is called and its result parsed again.
Assemble ==
    /\ pc = "assemble"
    /\ string' = assemble(args)
    /\ pc' = "loop"
    /\ UNCHANGED <<cursor, pos, state, tokens, token, string_cursor,
                   token_cursor, result, args>>
    /\ UNCHANGED <<layoutVars, winVars, uiVars, keysVars, screenVars>>

InitAssemble ==
    /\ \E k \in 0..MaxCursor : ParseEntry(<<>>, k)
    /\ pc = "assemble"
    /\ args \in UNION {ArgLists(n, MaxArgChars) : n \in 1..MaxArgs}
    /\ NoLayout
    /\ NoWin
    /\ NoUI
    /\ NoKeys
    /\ NoScreen

NextAssemble == Assemble \/ Step \/ Finish

SpecAssemble == InitAssemble /\ [][NextAssemble]_vars

\* ------------------------------------------------------------ what the claims speak of
Done == pc = "done"
Returned == Done /\ result.kind = "Ok"
StartsWithSlash == Len(string) > 0 /\ string[1] = Slash
Min(a, b) == IF a <= b THEN a ELSE b

\* Character i of line s follows an escape character that is itself not
\* escaped (the leading marker is never an escape character).
RECURSIVE EscapedAt(_, _)
EscapedAt(s, i) == i > 1 /\ s[i - 1] = Backslash /\ ~EscapedAt(s, i - 1)

\* Character i of line s is an escape character in force.
EscapeAt(s, i) == s[i] = Backslash /\ ~EscapedAt(s, i)

\* The quote that is open when character i of line s is read: "" for none.
RECURSIVE QuoteBefore(_, _)
QuoteBefore(s, i) ==
    IF i <= 2 THEN ""
    ELSE LET q == QuoteBefore(s, i - 1)
             c == s[i - 1]
         IN CASE EscapedAt(s, i - 1) \/ c = Backslash -> q
              [] q = "" /\ c \in {SimpleQuote, DoubleQuote} -> c
              [] q # "" /\ c = q -> ""
              [] OTHER -> q

\* Character i of line s is an unquoted, unescaped space.
DelimiterAt(s, i) ==
    /\ s[i] = Space
    /\ ~EscapedAt(s, i)
    /\ QuoteBefore(s, i) = ""

\* Character i of line s is an unquoted, unescaped space that ends an argument.
EndsArgument(s, i) == i > 2 /\ DelimiterAt(s, i) /\ ~DelimiterAt(s, i - 1)

\* The arguments ended within the first m characters of line s.
EndedWithin(s, m) == Cardinality({i \in 2..m : EndsArgument(s, i)})

\* The line ends with a delimiter.
TrailingDelimiter == Len(string) >= 2 /\ DelimiterAt(string, Len(string))

\* ------------------------------------------------------------ C2
\* C2: an input whose first character is not '/' (the empty input included)
\* makes parse_with_cursor return the error "Missing starting /", whatever
\* the cursor offset; no Command is produced, the loop is never left by break.
C2_MissingStart ==
    ~StartsWithSlash =>
        /\ result.kind \in {"Pending", "Err"}
        /\ pc \in {"loop", "done"}
        /\ Done => result = Failure("Missing starting /")

C2_Witness ==
    /\ Done
    /\ Len(string) >= 2 /\ string[1] = Space /\ string[2] = Slash
    /\ cursor = 1
    /\ result = Failure("Missing starting /")

\* ------------------------------------------------------------ C3
Quoting == {"SimplyQuoted", "DoublyQuoted"}
Escaping == {"UnquotedEscaped", "SimplyQuotedEscaped", "DoublyQuotedEscaped"}

\* C3: for an input beginning with '/', the whole input is read and the state
\* at its end decides the outcome: inside a quoted span, "Missing closing
\* quote"; right after an escape character, "Missing escaped char"; in
\* Delimiter or Unquoted, Ok. Nothing else happens: `tokens.len() - 1` never
\* underflows.
C3_OutcomeByEndState ==
    StartsWithSlash =>
        /\ result.kind \in {"Pending", "Ok", "Err"}
        /\ Done =>
            LET n == Len(string)
                escaping == EscapeAt(string, n)
                open == QuoteBefore(string, n + 1)
            IN /\ pos = n
               /\ state \in Quoting \cup Escaping \cup {"Delimiter", "Unquoted"}
               /\ state \in Escaping <=> escaping
               /\ state \in Quoting <=> (~escaping /\ open # "")
               /\ state \in Quoting => result = Failure("Missing closing quote")
               /\ state \in Escaping => result = Failure("Missing escaped char")
               /\ state \in {"Delimiter", "Unquoted"} => result.kind = "Ok"

C3_Witness ==
    /\ Done
    /\ string = <<Slash, Ordinary, SimpleQuote, Space, Backslash>>
    /\ state = "SimplyQuotedEscaped"
    /\ result = Failure("Missing escaped char")

\* ------------------------------------------------------------ C4
\* The line is '/' followed by spaces and characters that are neither quotes
\* nor backslashes.
PlainLine ==
    /\ StartsWithSlash
    /\ \A i \in 2..Len(string) : string[i] \in {Space, Ordinary, Slash}

\* Where the words of the line start, and where the word starting at i ends.
WordStarts ==
    {i \in 2..Len(string) :
        string[i] # Space /\ (i = 2 \/ string[i - 1] = Space)}
WordEnd(i) ==
    CHOOSE e \in i..Len(string) :
        /\ \A x \in i..e : string[x] # Space
        /\ (e = Len(string) \/ string[e + 1] = Space)
NthWordStart(j) ==
    CHOOSE i \in WordStarts : Cardinality({x \in WordStarts : x < i}) = j - 1

\* C4: for '/' followed by at least one word without quotes or backslashes,
\* the words separated by one or more spaces, the args returned are exactly
\* the words, in order: the maximal runs of non-space characters.
C4_PlainWords ==
    (Done /\ PlainLine /\ WordStarts # {}) =>
        /\ result.kind = "Ok"
        /\ Len(result.args) = Cardinality(WordStarts)
        /\ \A j \in 1..Len(result.args) :
              result.args[j] =
                  SubSeq(string, NthWordStart(j), WordEnd(NthWordStart(j)))

C4_Witness ==
    /\ Returned
    /\ string = <<Slash, Ordinary, Space, Space, Slash>>
    /\ result.args = << <<Ordinary>>, <<Slash>> >>

\* ------------------------------------------------------------ C5
\* C5: in a single-quoted span a space and a double quote are appended to the
\* current argument, in a double-quoted span a space and a single quote; the
\* quote that opens or closes a span is not appended, and closing a span
\* leaves the argument open: an argument is emitted only by a space or the
\* end of input read in the Unquoted state.
C5_QuotedSpans ==
    [][pc = "loop" =>
        LET c == NextChar
        IN /\ (state = "SimplyQuoted" /\ c \in {Space, DoubleQuote}) =>
                  (state' = "SimplyQuoted" /\ token' = Append(token, c)
                   /\ tokens' = tokens)
           /\ (state = "DoublyQuoted" /\ c \in {Space, SimpleQuote}) =>
                  (state' = "DoublyQuoted" /\ token' = Append(token, c)
                   /\ tokens' = tokens)
           /\ (state \in {"Delimiter", "Unquoted"} /\ c = SimpleQuote) =>
                  (state' = "SimplyQuoted" /\ token' = token /\ tokens' = tokens)
           /\ (state \in {"Delimiter", "Unquoted"} /\ c = DoubleQuote) =>
                  (state' = "DoublyQuoted" /\ token' = token /\ tokens' = tokens)
           /\ (state = "SimplyQuoted" /\ c = SimpleQuote) =>
                  (state' = "Unquoted" /\ token' = token /\ tokens' = tokens)
           /\ (state = "DoublyQuoted" /\ c = DoubleQuote) =>
                  (state' = "Unquoted" /\ token' = token /\ tokens' = tokens)
           /\ tokens' # tokens =>
                  (state = "Unquoted" /\ c \in {Space, NoChar}
                   /\ tokens' = Append(tokens, token))
    ]_vars

C5_Witness ==
    /\ Returned
    /\ string = <<Slash, SimpleQuote, Space, DoubleQuote, SimpleQuote>>
    /\ result.args = << <<Space, DoubleQuote>> >>

\* ------------------------------------------------------------ C6
\* The quoting context an escaped state returns to.
ContextOf(s) ==
    CASE s = "UnquotedEscaped" -> "Unquoted"
      [] s = "SimplyQuotedEscaped" -> "SimplyQuoted"
      [] s = "DoublyQuotedEscaped" -> "DoublyQuoted"

\* The escaped state a backslash leads to.
EscapedOf(s) ==
    CASE s \in {"Delimiter", "Unquoted"} -> "UnquotedEscaped"
      [] s = "SimplyQuoted" -> "SimplyQuotedEscaped"
      [] s = "DoublyQuoted" -> "DoublyQuotedEscaped"

\* C6: after the leading '/', a backslash read outside an escape is not
\* appended and makes the next character, whatever it is, be appended to the
\* current argument; the tokenizer is then back in the quoting context in
\* which the backslash was read, having consumed exactly that one character.
C6_Escape ==
    [][pc = "loop" =>
        LET c == NextChar
        IN /\ (state \in {"Delimiter", "Unquoted"} \cup Quoting /\ c = Backslash) =>
                  (state' = EscapedOf(state) /\ token' = token
                   /\ tokens' = tokens /\ pos' = pos + 1)
           /\ (state \in Escaping /\ c # NoChar) =>
                  (state' = ContextOf(state) /\ token' = Append(token, c)
                   /\ tokens' = tokens /\ pos' = pos + 1)
           /\ (state' \in Escaping /\ c # NoChar) =>
                  (c = Backslash /\ state' = EscapedOf(state))
    ]_vars

C6_Witness ==
    /\ Returned
    /\ string = <<Slash, SimpleQuote, Backslash, SimpleQuote, SimpleQuote>>
    /\ result.args = << <<SimpleQuote>> >>

\* ------------------------------------------------------------ C7
\* C7: for a line of n characters that parses, the cursor returned is the
\* number of arguments ended by an unquoted, unescaped space within the first
\* min(cursor + 1, n) characters; for an offset at or past the end it is the
\* last argument's index, or len(args) when the line ends with a delimiter
\* after at least one argument.
C7_Cursor ==
    Returned =>
        LET n == Len(string)
        IN /\ result.cursor = EndedWithin(string, Min(cursor + 1, n))
           /\ cursor >= n =>
                 result.cursor =
                     IF TrailingDelimiter /\ Len(tokens) > 0
                     THEN Len(result.args)
                     ELSE Len(result.args) - 1

C7_Witness ==
    /\ Returned
    /\ string = <<Slash, Ordinary, Space, Ordinary, Space>>
    /\ cursor = 2
    /\ result.cursor = 1
    /\ Len(result.args) = 2

\* ------------------------------------------------------------ C8
\* C8 as stated: cursor < len(args) unless the line ends with a trailing
\* delimiter, in which case cursor = len(args).
C8_Original ==
    Returned =>
        IF TrailingDelimiter
        THEN result.cursor = Len(result.args)
        ELSE result.cursor < Len(result.args)

\* The last character that ends an argument.
LastEnd == CHOOSE i \in 2..Len(string) :
              /\ EndsArgument(string, i)
              /\ \A x \in 2..Len(string) : EndsArgument(string, x) => x <= i

\* C8, amended: cursor <= len(args); cursor < len(args) unless the line ends
\* with a trailing delimiter; cursor = len(args) exactly when the line ends
\* with a trailing delimiter after at least one argument and the cursor
\* offset is at or past the delimiter that ended the last argument.
C8_CursorRange ==
    Returned =>
        /\ result.cursor <= Len(result.args)
        /\ ~TrailingDelimiter => result.cursor < Len(result.args)
        /\ result.cursor = Len(result.args) <=>
              (TrailingDelimiter /\ Len(tokens) > 0 /\ cursor + 1 >= LastEnd)

C8_Witness ==
    /\ Returned
    /\ string = <<Slash, Ordinary, Space, Space>>
    /\ cursor = 1
    /\ result.cursor = 0
    /\ Len(result.args) = 1

\* ------------------------------------------------------------ C9
\* The line is the marker followed by spaces only.
MarkerOnly ==
    /\ StartsWithSlash
    /\ \A i \in 2..Len(string) : string[i] = Space

\* C9: a line beginning with '/' that yields no token (the marker alone or
\* followed by spaces only) returns args = [""] and cursor = 0, whatever the
\* cursor offset.
C9_NoToken ==
    /\ (Done /\ MarkerOnly) => (result.kind = "Ok" /\ tokens = <<>>)
    /\ (Returned /\ tokens = <<>>) =>
          (MarkerOnly /\ result.args = << <<>> >> /\ result.cursor = 0)

C9_Witness ==
    /\ Returned
    /\ string = <<Slash, Space, Space>>
    /\ cursor = 1
    /\ result.args = << <<>> >>
    /\ result.cursor = 0

\* ------------------------------------------------------------ C10
QuoteChars == {SimpleQuote, DoubleQuote}
Has(arg, S) == \E i \in 1..Len(arg) : arg[i] \in S
Count(arg, S) == Cardinality({i \in 1..Len(arg) : arg[i] \in S})

\* The first quote character of an argument that has one.
FirstQuoteChar(arg) ==
    arg[CHOOSE i \in 1..Len(arg) :
            arg[i] \in QuoteChars /\ \A j \in 1..(i - 1) : arg[j] \notin QuoteChars]

\* The quote an argument is to be wrapped in: none without a space or a quote
\* character, single quotes when its first quote character is a double
\* quote, double quotes otherwise.
Enclosing(arg) ==
    CASE ~Has(arg, QuoteChars \cup {Space}) -> None
      [] Has(arg, QuoteChars) /\ FirstQuoteChar(arg) = DoubleQuote -> Some(SimpleQuote)
      [] OTHER -> Some(DoubleQuote)

\* The argument from character i on, a backslash put before every backslash
\* and before every quote character of the enclosing kind q.
RECURSIVE Backslashed(_, _, _)
Backslashed(arg, i, q) ==
    IF i > Len(arg) THEN <<>>
    ELSE (IF arg[i] = Backslash \/ q = Some(arg[i]) THEN <<Backslash, arg[i]>>
          ELSE <<arg[i]>>) \o Backslashed(arg, i + 1, q)

Escaped(arg) ==
    LET q == Enclosing(arg)
    IN IF q = None THEN Backslashed(arg, 1, q)
       ELSE <<q[1]>> \o Backslashed(arg, 1, q) \o <<q[1]>>

\* The escaped arguments from the i-th on, a single space between them.
RECURSIVE Joined(_, _)
Joined(as, i) ==
    IF i > Len(as) THEN <<>>
    ELSE (IF i = 1 THEN <<>> ELSE <<Space>>) \o Escaped(as[i]) \o Joined(as, i + 1)

\* C10: assemble returns '/' followed by the escaped arguments joined by
\* single spaces. An argument is wrapped in quotes exactly when it holds a
\* space or a quote character, in single quotes when its first quote
\* character is a double quote and in double quotes otherwise; a quote
\* character gets a backslash of its own exactly when it is of the enclosing
\* kind (every backslash of the argument is doubled), and an argument in
\* which that happens holds both kinds of quote.
C10_Assemble ==
    pc # "assemble" =>
        /\ string = <<Slash>> \o Joined(args, 1)
        /\ \A i \in 1..Len(args) :
              LET arg == args[i]
                  wrapped == IF Has(arg, QuoteChars \cup {Space}) THEN 2 ELSE 0
                  added == Len(escape(arg)) - Len(arg) - wrapped
                               - Count(arg, {Backslash})
              IN /\ added >= 0
                 /\ added > 0 =>
                       (Has(arg, {SimpleQuote}) /\ Has(arg, {DoubleQuote}))

C10_Witness ==
    /\ pc = "loop"
    /\ args = << <<Space>>, <<DoubleQuote, SimpleQuote>> >>
    /\ string = <<Slash, DoubleQuote, Space, DoubleQuote, Space,
                  SimpleQuote, DoubleQuote, Backslash, SimpleQuote, SimpleQuote>>

\* ------------------------------------------------------------ C1
\* C1: parse_with_cursor(assemble(Command{args}), k) returns Ok with the
\* argument list args, for every non-empty list of arguments (empty strings
\* among them) and every cursor offset k.
C1_RoundTrip ==
    (Done /\ args # <<>>) => (result.kind = "Ok" /\ result.args = args)

\* The round trip of the lists that hold an empty string only when they are
\* the list of one empty string.
RoundTripWithoutEmpty ==
    (Done /\ (args = << <<>> >> \/ \A i \in 1..Len(args) : args[i] # <<>>)) =>
        (result.kind = "Ok" /\ result.args = args)

\* ======================================================================
\* The view tree of the terminal UI (src/plugins/ui.rs): Dimension, View,
\* FrameLayout and LinearLayout, with their measure and layout passes.
\*
\* A view is a record: kind is "Leaf" for a view that keeps the default
\* measure and layout (Input, TitleBar, WinBar, BufferedWin), "Frame" for
\* a FrameLayout (children holds its child, if any) and "Linear" for a
\* LinearLayout.  A pass returns [ok, node]: ok is FALSE when the pass
\* panicked.
\* ======================================================================
MaxChildren == 2  \* most children of a LinearLayout
MaxSpec == 3      \* largest width or height offered to the root

\* The fields x, y, w and h are u16.
U16 == 65536

MatchParent == [dim |-> "MatchParent", n |-> 0]
WrapContent == [dim |-> "WrapContent", n |-> 0]
Absolute(n) == [dim |-> "Absolute", n |-> n]

Builds == {"debug", "release"}

Max(a, b) == IF a >= b THEN a ELSE b
UnwrapOr(o, d) == IF o = None THEN d ELSE o[1]

\* a - c on u16: a panic (None) in a debug build, wrapped in a release build.
Sub16(b, a, c) ==
    IF a >= c THEN Some(a - c)
    ELSE IF b = "debug" THEN None ELSE Some(a - c + U16)

\* a + c on u16, likewise.
Add16(b, a, c) ==
    IF a + c < U16 THEN Some(a + c)
    ELSE IF b = "debug" THEN None ELSE Some(a + c - U16)

Ok(v) == [ok |-> TRUE, node |-> v]
Panic(v) == [ok |-> FALSE, node |-> v]

get_measured_width(v) == IF v.w > 0 THEN Some(v.w) ELSE None
get_measured_height(v) == IF v.h > 0 THEN Some(v.h) ELSE None

\* DefaultAxis, were Absolute(n) to resolve to n whatever is offered.
DefaultAxis_IgnoresSpec(dimension, spec) ==
    CASE dimension.dim = "MatchParent" -> Some(UnwrapOr(spec, 0))
      [] dimension.dim = "WrapContent" -> None
      [] dimension.dim = "Absolute" -> Some(dimension.n)

\* One axis of the default measure; None is unreachable!().
DefaultAxis(dimension, spec) ==
    CASE dimension.dim = "MatchParent" -> Some(UnwrapOr(spec, 0))
      [] dimension.dim = "WrapContent" -> None
      [] dimension.dim = "Absolute" ->
            Some(IF spec = None THEN dimension.n ELSE Min(dimension.n, spec[1]))

\* The default measure of View<T>.
DefaultMeasure(v, width_spec, height_spec) ==
    LET w == DefaultAxis(v.width, width_spec)
        h == DefaultAxis(v.height, height_spec)
    IN IF w = None \/ h = None THEN Panic(v)
       ELSE Ok([v EXCEPT !.w = w[1], !.h = h[1]])

\* max_width and max_height of LinearLayout's measure.
MaxOf(dimension, spec) ==
    IF dimension.dim = "Absolute"
    THEN Some(IF spec = None THEN dimension.n ELSE Min(dimension.n, spec[1]))
    ELSE spec

RECURSIVE measure(_, _, _, _)

\* FrameMeasure, were the frame to grow by the spec instead of taking it.
FrameMeasure_Accumulates(b, v, width_spec, height_spec) ==
    LET f == [v EXCEPT !.w = v.w + UnwrapOr(width_spec, 0),
                       !.h = v.h + UnwrapOr(height_spec, 0)]
    IN IF f.children = <<>> THEN Ok(f)
       ELSE LET r == measure(b, f.children[1], Some(f.w), Some(f.h))
            IN IF r.ok THEN Ok([f EXCEPT !.children = <<r.node>>])
               ELSE Panic(v)

\* measure of View<FrameLayout>.
FrameMeasure(b, v, width_spec, height_spec) ==
    LET f == [v EXCEPT !.w = UnwrapOr(width_spec, 0),
                       !.h = UnwrapOr(height_spec, 0)]
    IN IF f.children = <<>> THEN Ok(f)
       ELSE LET r == measure(b, f.children[1], Some(f.w), Some(f.h))
            IN IF r.ok THEN Ok([f EXCEPT !.children = <<r.node>>])
               ELSE Panic(v)

\* The first loop of LinearLayout's measure: every child is measured with
\* no spec and min_width, min_height are accumulated.  acc is
\* [ok, children, min_width, min_height].
RECURSIVE IntrinsicPass(_, _, _, _)
IntrinsicPass(b, orientation, todo, acc) ==
    IF todo = <<>> THEN acc
    ELSE LET r == measure(b, Head(todo), None, None)
             child == r.node
             cw == UnwrapOr(get_measured_width(child), 0)
             ch == UnwrapOr(get_measured_height(child), 0)
             min_width == IF orientation = "Vertical"
                          THEN Some(Max(acc.min_width, cw))
                          ELSE Add16(b, acc.min_width, ch)
             min_height == IF orientation = "Vertical"
                           THEN Add16(b, acc.min_height, ch)
                           ELSE Some(Max(acc.min_height, ch))
         IN IF ~r.ok \/ min_width = None \/ min_height = None
            THEN [acc EXCEPT !.ok = FALSE]
            ELSE IntrinsicPass(b, orientation, Tail(todo),
                     [ok |-> TRUE,
                      children |-> Append(acc.children, child),
                      min_width |-> min_width[1],
                      min_height |-> min_height[1]])

\* remaining_width and remaining_height.
Remaining(b, max, min) ==
    IF max = None THEN Some(0) ELSE Sub16(b, max[1], min)

\* The children that do not know their size on one axis.
Unsized(measured) ==
    Cardinality({i \in DOMAIN measured : measured[i] = None})

\* splitted_width and splitted_height on the main axis.
Splitted(remaining, count) ==
    Some(IF count = 0 THEN 0 ELSE remaining \div count)

\* The spec handed to a child, were it not capped by what is left of the
\* container's bound.
ChildSpec_NoCap(b, measured, splitted, main, max, used) ==
    Some(IF measured # None THEN measured ELSE splitted)

\* The spec handed to a child on one axis in the second loop: Some(spec),
\* or None when computing it panicked.
ChildSpec(b, measured, splitted, main, max, used) ==
    LET spec == IF measured # None THEN measured ELSE splitted
    IN IF main /\ max # None
       THEN LET left == Sub16(b, max[1], used)
            IN IF spec = None \/ left = None THEN None
               ELSE Some(Some(Min(spec[1], left[1])))
       ELSE Some(spec)

\* The second loop of LinearLayout's measure.  c is [b, orientation,
\* max_width, max_height, splitted_width, splitted_height] and acc is
\* [ok, children, w, h].
RECURSIVE ResolvePass(_, _, _)
ResolvePass(c, todo, acc) ==
    IF todo = <<>> THEN acc
    ELSE LET child == Head(todo)
             vertical == c.orientation = "Vertical"
             width_spec == ChildSpec(c.b, get_measured_width(child),
                               c.splitted_width, ~vertical, c.max_width, acc.w)
             height_spec == ChildSpec(c.b, get_measured_height(child),
                                c.splitted_height, vertical, c.max_height, acc.h)
         IN IF width_spec = None \/ height_spec = None
            THEN [acc EXCEPT !.ok = FALSE]
            ELSE LET r == measure(c.b, child, width_spec[1], height_spec[1])
                     cw == get_measured_width(r.node)
                     ch == get_measured_height(r.node)
                 IN IF ~r.ok \/ cw = None \/ ch = None
                    THEN [acc EXCEPT !.ok = FALSE]
                    ELSE LET w == IF vertical THEN Some(Max(acc.w, cw[1]))
                                  ELSE Add16(c.b, acc.w, cw[1])
                             h == IF vertical THEN Add16(c.b, acc.h, ch[1])
                                  ELSE IF w = None THEN None
                                  ELSE Some(Max(w[1], ch[1]))
                         IN IF w = None \/ h = None
                            THEN [acc EXCEPT !.ok = FALSE]
                            ELSE ResolvePass(c, Tail(todo),
                                     [ok |-> TRUE,
                                      children |-> Append(acc.children, r.node),
                                      w |-> w[1],
                                      h |-> h[1]])

\* measure of View<LinearLayout>.
LinearMeasure(b, v, width_spec, height_spec) ==
    LET vertical == v.orientation = "Vertical"
        max_width == MaxOf(v.width, width_spec)
        max_height == MaxOf(v.height, height_spec)
        i == IntrinsicPass(b, v.orientation, v.children,
                 [ok |-> TRUE, children |-> <<>>,
                  min_width |-> 0, min_height |-> 0])
        remaining_width == Remaining(b, max_width, i.min_width)
        remaining_height == Remaining(b, max_height, i.min_height)
    IN IF ~i.ok \/ remaining_width = None \/ remaining_height = None
       THEN Panic(v)
       ELSE LET splitted_width ==
                    IF vertical THEN max_width
                    ELSE Splitted(remaining_width[1],
                        Unsized([k \in DOMAIN i.children |->
                                    get_measured_width(i.children[k])]))
                splitted_height ==
                    IF vertical
                    THEN Splitted(remaining_height[1],
                        Unsized([k \in DOMAIN i.children |->
                                    get_measured_height(i.children[k])]))
                    ELSE max_height
                r == ResolvePass([b |-> b, orientation |-> v.orientation,
                                  max_width |-> max_width,
                                  max_height |-> max_height,
                                  splitted_width |-> splitted_width,
                                  splitted_height |-> splitted_height],
                                 i.children,
                                 [ok |-> TRUE, children |-> <<>>,
                                  w |-> 0, h |-> 0])
            IN IF r.ok
               THEN Ok([v EXCEPT !.children = r.children, !.w = r.w, !.h = r.h])
               ELSE Panic(v)

\* view.measure(width_spec, height_spec) in build b.
measure(b, v, width_spec, height_spec) ==
    CASE v.kind = "Leaf" -> DefaultMeasure(v, width_spec, height_spec)
      [] v.kind = "Frame" -> FrameMeasure(b, v, width_spec, height_spec)
      [] v.kind = "Linear" -> LinearMeasure(b, v, width_spec, height_spec)

RECURSIVE layout(_, _, _, _)

\* The loop of LinearLayout's layout, were it to place every child at the
\* container's origin.
LayoutChildren_Stacked(b, orientation, todo, acc) ==
    [acc EXCEPT !.children =
        [i \in DOMAIN todo |-> layout(b, todo[i], acc.y, acc.x).node]]

\* The loop of LinearLayout's layout.  acc is [ok, children, x, y].
RECURSIVE LayoutChildren(_, _, _, _)
LayoutChildren(b, orientation, todo, acc) ==
    IF todo = <<>> THEN acc
    ELSE LET r == layout(b, Head(todo), acc.y, acc.x)
             size == IF orientation = "Vertical"
                     THEN get_measured_height(r.node)
                     ELSE get_measured_width(r.node)
             next == IF size = None THEN None
                     ELSE Add16(b, IF orientation = "Vertical"
                                   THEN acc.y ELSE acc.x, size[1])
         IN IF ~r.ok \/ next = None THEN [acc EXCEPT !.ok = FALSE]
            ELSE LayoutChildren(b, orientation, Tail(todo),
                     [ok |-> TRUE,
                      children |-> Append(acc.children, r.node),
                      x |-> IF orientation = "Vertical" THEN acc.x ELSE next[1],
                      y |-> IF orientation = "Vertical" THEN next[1] ELSE acc.y])

\* view.layout(top, left) in build b.
layout(b, v, top, left) ==
    LET placed == [v EXCEPT !.x = left, !.y = top]
    IN CASE v.kind = "Leaf" -> Ok(placed)
         [] v.kind = "Frame" ->
               IF v.children = <<>> THEN Ok(placed)
               ELSE LET r == layout(b, v.children[1], top, left)
                    IN IF r.ok THEN Ok([placed EXCEPT !.children = <<r.node>>])
                       ELSE Panic(v)
         [] v.kind = "Linear" ->
               LET r == LayoutChildren(b, v.orientation, v.children,
                            [ok |-> TRUE, children |-> <<>>,
                             x |-> left, y |-> top])
               IN IF r.ok THEN Ok([placed EXCEPT !.children = r.children])
                  ELSE Panic(v)

\* set_child, were the child laid out at (x, y) instead of (y, x).
set_child_Swapped(b, v, child) ==
    LET m == measure(b, child, Some(v.w), Some(v.h))
        l == layout(b, m.node, v.x, v.y)
    IN IF m.ok /\ l.ok THEN Ok([v EXCEPT !.children = <<l.node>>])
       ELSE Panic(v)

\* View<FrameLayout>::set_child in build b.
set_child(b, v, child) ==
    LET m == measure(b, child, Some(v.w), Some(v.h))
        l == layout(b, m.node, v.y, v.x)
    IN IF m.ok /\ l.ok THEN Ok([v EXCEPT !.children = <<l.node>>])
       ELSE Panic(v)

\* ------------------------------------------------------------ view trees
\* A view as its constructor leaves it.
NewView(kind, width, height, x, y, orientation, children) ==
    [kind |-> kind, width |-> width, height |-> height,
     x |-> x, y |-> y, w |-> 0, h |-> 0,
     orientation |-> orientation, children |-> children]

\* Input, TitleBar, WinBar and BufferedWin are built at x = 0, y = 0.
Leaf(width, height) == NewView("Leaf", width, height, 0, 0, "", <<>>)
\* View<FrameLayout>::new, then set_child for a frame with a child.
Frame(child) == NewView("Frame", MatchParent, MatchParent, 1, 1, "", child)
\* View<LinearLayout>::new, then push for every child.
Linear(orientation, width, height, children) ==
    NewView("Linear", width, height, 0, 0, orientation, children)

\* The n of the Absolute(n) dimensions the trees are built with.
AbsoluteSizes == {1, 2}
LeafDimensions == {MatchParent} \cup {Absolute(n) : n \in AbsoluteSizes}
Leaves == {Leaf(width, height) : width, height \in LeafDimensions}
\* set_child measures the child with the frame's w = 0, h = 0 and lays it
\* out at the frame's y = 1, x = 1.
Frames == {Frame(<<>>),
           Frame(<<[Leaf(MatchParent, MatchParent) EXCEPT !.x = 1, !.y = 1]>>)}
Children == Leaves \cup Frames
\* A LinearLayout treats WrapContent as it treats MatchParent.
ContainerDimensions == {MatchParent, Absolute(2)}
Linears ==
    {Linear(orientation, dimension, dimension, children) :
        orientation \in {"Vertical", "Horizontal"},
        dimension \in ContainerDimensions,
        children \in SeqsUpTo(Children, MaxChildren)}
Roots == Leaves \cup Frames \cup Linears

Specs == {None} \cup {Some(n) : n \in 0..MaxSpec}
\* layout(1, 1) is what UIPlugin::init calls.
Origins == {<<1, 1>>, <<2, 3>>}

\* ------------------------------------------------------------ passes
\* What a pass can come to, given its outcome d in a debug build and r in
\* a release build, as <<build, outcome>>.  The two differ only once a u16
\* operation overflows; which build runs shows then, and stays.
Outcomes(d, r) ==
    IF build # "unknown" THEN {<<build, IF build = "release" THEN r ELSE d>>}
    ELSE IF d = r THEN {<<build, d>>}
    ELSE {<<"debug", d>>, <<"release", r>>}

\* The tree is measured: with any specs the first time, with the same
\* specs the second time.
Measure ==
    /\ layout_pc \in {"built", "laid_out"}
    /\ run < 2
    /\ \E width_spec, height_spec \in Specs :
          /\ run = 1 => measure_args = <<width_spec, height_spec>>
          /\ measure_args' = <<width_spec, height_spec>>
          /\ \E out \in Outcomes(measure("debug", root, width_spec, height_spec),
                                 measure("release", root, width_spec, height_spec)) :
                /\ build' = out[1]
                /\ root' = out[2].node
                /\ layout_pc' = IF out[2].ok THEN "measured"
                                ELSE "measure_panicked"
    /\ run' = run + 1
    /\ UNCHANGED <<layout_args, first_run>>
    /\ UNCHANGED <<parseVars, winVars, uiVars, keysVars, screenVars>>

\* The measured tree is laid out: at any origin the first time, at the
\* same origin the second time.
Layout ==
    /\ layout_pc = "measured"
    /\ \E origin \in Origins :
          /\ run = 2 => layout_args = origin
          /\ layout_args' = origin
          /\ \E out \in Outcomes(layout("debug", root, origin[1], origin[2]),
                                 layout("release", root, origin[1], origin[2])) :
                /\ build' = out[1]
                /\ root' = out[2].node
                /\ layout_pc' = IF out[2].ok THEN "laid_out"
                                ELSE "layout_panicked"
                /\ first_run' = IF run = 1 /\ out[2].ok THEN Some(out[2].node)
                                ELSE first_run
    /\ UNCHANGED <<measure_args, run>>
    /\ UNCHANGED <<parseVars, winVars, uiVars, keysVars, screenVars>>

\* The views handed to set_child: a window (BufferedWin is MatchParent on
\* both axes) or a view of a fixed size, as their constructors leave them.
NewChildren == {Leaf(MatchParent, MatchParent), Leaf(Absolute(1), Absolute(1))}

\* frame.set_child(child) on a frame that is the root, at any moment.  The
\* tree is no longer the one the first pass left.
SetChild ==
    /\ root.kind = "Frame"
    /\ layout_pc \in {"built", "measured", "laid_out"}
    /\ \E child \in NewChildren :
          \E out \in Outcomes(set_child("debug", root, child),
                              set_child("release", root, child)) :
             /\ build' = out[1]
             /\ root' = out[2].node
             /\ out[2].ok
    /\ first_run' = None
    /\ UNCHANGED <<layout_pc, measure_args, layout_args, run>>
    /\ UNCHANGED <<parseVars, winVars, uiVars, keysVars, screenVars>>

NoParse ==
    /\ \E k \in {0} : ParseEntry(<<>>, k)
    /\ pc = "none"
    /\ args = <<>>

InitLayout ==
    /\ root \in Roots
    /\ build = "unknown"
    /\ layout_pc = "built"
    /\ measure_args = <<>>
    /\ layout_args = <<>>
    /\ run = 0
    /\ first_run = None
    /\ NoParse
    /\ NoWin
    /\ NoUI
    /\ NoKeys
    /\ NoScreen

NextLayout == Measure \/ Layout \/ SetChild

SpecLayout == InitLayout /\ [][NextLayout]_vars

\* ------------------------------------------------------------ layout claims
RECURSIVE Sum(_)
Sum(numbers) == IF numbers = <<>> THEN 0 ELSE Head(numbers) + Sum(Tail(numbers))

RECURSIVE Largest(_)
Largest(numbers) ==
    IF numbers = <<>> THEN 0 ELSE Max(Head(numbers), Largest(Tail(numbers)))

LinearRoot == root.kind = "Linear"
Vertical == root.orientation = "Vertical"
Measured == layout_pc \in {"measured", "laid_out"}

\* The resolved sizes of the root's children along and across its axis.
MainSizes == [i \in DOMAIN root.children |->
                 IF Vertical THEN root.children[i].h ELSE root.children[i].w]
CrossSizes == [i \in DOMAIN root.children |->
                  IF Vertical THEN root.children[i].w ELSE root.children[i].h]
MainSize == IF Vertical THEN root.h ELSE root.w
CrossSize == IF Vertical THEN root.w ELSE root.h

\* C11: whatever width and height are offered to a LinearLayout whose
\* children are sized with Absolute or MatchParent, measure completes and
\* the container's size along its axis is the sum of its children's sizes
\* along that axis.
C11_Conservation ==
    LinearRoot =>
        /\ layout_pc # "measure_panicked"
        /\ Measured => MainSize = Sum(MainSizes)

\* What does hold: the sum is conserved whenever measure completes.
ConservedWhenMeasured ==
    (LinearRoot /\ Measured) => MainSize = Sum(MainSizes)

\* What a dimension asks for when no spec is offered.
IntrinsicOf(dimension) == IF dimension.dim = "Absolute" THEN dimension.n ELSE 0
IntrinsicMainSizes ==
    [i \in DOMAIN root.children |->
        IntrinsicOf(IF Vertical THEN root.children[i].height
                    ELSE root.children[i].width)]
\* The container's own bound along its axis in the last measure.
MaxMain ==
    IF Vertical THEN MaxOf(root.height, measure_args[2])
    ELSE MaxOf(root.width, measure_args[1])
OverBudget ==
    /\ LinearRoot
    /\ run >= 1
    /\ MaxMain # None
    /\ Sum(IntrinsicMainSizes) > MaxMain[1]

\* C12: when the children of a LinearLayout ask for more along its axis
\* than the container's bound, no u16 subtraction underflows, measure
\* does not fail, and the children are clamped into the bound.
C12_Clamped ==
    OverBudget =>
        /\ build = "unknown"
        /\ layout_pc # "measure_panicked"
        /\ Measured => Sum(MainSizes) <= MaxMain[1]

\* C13: after LinearLayout's measure the container's size across its axis
\* is the largest of its children's sizes across that axis, in both
\* orientations.
C13_CrossAxis ==
    (LinearRoot /\ Measured) => CrossSize = Largest(CrossSizes)

\* What does hold: the cross axis of a Vertical container.
VerticalCrossAxis ==
    (LinearRoot /\ Vertical /\ Measured) => CrossSize = Largest(CrossSizes)

\* a_0 + ... + a_(i-1) for the heights the children ask for.
HeightsBefore(i) == Sum(SubSeq(IntrinsicMainSizes, 1, i - 1))
AbsoluteStack ==
    /\ LinearRoot
    /\ Vertical
    /\ \A i \in DOMAIN root.children : root.children[i].height.dim = "Absolute"
    /\ run >= 1
    /\ measure_args[1] # None /\ measure_args[1][1] > 0
    /\ measure_args[2] # None /\ measure_args[2][1] >= Sum(IntrinsicMainSizes)
StackResolved ==
    /\ \A i \in DOMAIN root.children :
          root.children[i].h = IntrinsicMainSizes[i]
    /\ root.h = Sum(IntrinsicMainSizes)
StackPlaced ==
    \A i \in DOMAIN root.children :
        root.children[i].y = layout_args[1] + HeightsBefore(i)

\* C15: a Vertical LinearLayout whose children all have Absolute heights,
\* offered a positive width and a height of at least the sum of those
\* heights, gives every child its own height and takes their sum as its
\* height; layout then stacks the children from top downwards.
C15_AbsoluteStack ==
    AbsoluteStack =>
        /\ layout_pc \notin {"measure_panicked", "layout_panicked"}
        /\ Measured => StackResolved
        /\ layout_pc = "laid_out" => StackPlaced

\* What does hold: the same for a MatchParent container, whenever measure
\* completes.
MatchParentStack ==
    (AbsoluteStack /\ root.height = MatchParent) =>
        /\ Measured => StackResolved
        /\ layout_pc = "laid_out" => StackPlaced

\* C14: measure(ws, hs) then layout(top, left), run twice in a row (no
\* set_child since the first run) with the same arguments, leaves every
\* node of the tree with the x, y, w and h the first run gave it.
C14_Idempotent ==
    run = 2 =>
        /\ layout_pc \notin {"measure_panicked", "layout_panicked"}
        /\ (layout_pc = "laid_out" /\ first_run # None) => root = first_run[1]

\* A container of two children, one of them a frame with a child, has
\* been measured and laid out twice away from the origin.
C14_Witness ==
    /\ run = 2
    /\ layout_pc = "laid_out"
    /\ LinearRoot
    /\ Len(root.children) = 2
    /\ \E i \in DOMAIN root.children :
          /\ root.children[i].kind = "Frame"
          /\ root.children[i].children # <<>>
          /\ root.children[i].children[1].y > 2
    /\ root.x = 3
    /\ root.h > 1

\* What the default measure is to give on one axis.
ResolvedAxis(dimension, spec) ==
    IF dimension = MatchParent
    THEN IF spec = None THEN 0 ELSE spec[1]
    ELSE IF spec = None THEN dimension.n ELSE Min(dimension.n, spec[1])

\* C16: the default measure resolves each axis on its own: MatchParent
\* gives the spec, or 0 without one; Absolute(n) gives min(n, spec), or n
\* without one; the result never exceeds a spec that is present, and
\* nothing but w and h changes.
C16_LeafMeasure ==
    [][(root.kind = "Leaf" /\ run' = run + 1) =>
          /\ layout_pc' = "measured"
          /\ root'.w = ResolvedAxis(root.width, measure_args'[1])
          /\ root'.h = ResolvedAxis(root.height, measure_args'[2])
          /\ measure_args'[1] # None => root'.w <= measure_args'[1][1]
          /\ measure_args'[2] # None => root'.h <= measure_args'[2][1]
          /\ root' = [root EXCEPT !.w = root'.w, !.h = root'.h]]_vars

\* A leaf laid out at (2, 3) has been measured again: Absolute(2) against
\* an offered width of 1, MatchParent against no offered height.
C16_Witness ==
    /\ root.kind = "Leaf"
    /\ run = 2
    /\ layout_pc = "measured"
    /\ root.width = Absolute(2)
    /\ root.height = MatchParent
    /\ measure_args = <<Some(1), None>>
    /\ root.w = 1
    /\ root.h = 0
    /\ root.x = 3
    /\ root.y = 2

Geometry(v) == <<v.x, v.y, v.w, v.h>>

\* A frame holding a child that is MatchParent on both axes gives it its
\* own geometry.
Delegates(v) ==
    (/\ v.kind = "Frame"
     /\ v.children # <<>>
     /\ v.children[1].width = MatchParent
     /\ v.children[1].height = MatchParent) =>
        Geometry(v.children[1]) = Geometry(v)

\* A step that is a set_child on the root frame: no pass started or ended.
SetChildStep ==
    /\ root.kind = "Frame"
    /\ layout_pc' = layout_pc
    /\ run' = run
    /\ root' # root

\* C23: a FrameLayout's child that is MatchParent on both axes has the
\* frame's x, y, w and h, after the frame's measure and layout and right
\* after set_child(c); set_child measures c with the frame's w and h, lays
\* it out at the frame's y and x, makes it the only child and leaves the
\* frame's own geometry alone.
C23_FrameChild ==
    [][/\ Delegates(root')
       /\ \A i \in DOMAIN root'.children : Delegates(root'.children[i])
       /\ SetChildStep =>
             /\ Geometry(root') = Geometry(root)
             /\ Len(root'.children) = 1
             /\ root'.children[1].w =
                    ResolvedAxis(root'.children[1].width, Some(root.w))
             /\ root'.children[1].h =
                    ResolvedAxis(root'.children[1].height, Some(root.h))
             /\ root'.children[1].x = root.x
             /\ root'.children[1].y = root.y]_vars

\* A frame measured to 2 x 3 and laid out at (2, 3) was handed a window.
C23_Witness ==
    /\ root.kind = "Frame"
    /\ layout_pc = "laid_out"
    /\ first_run = None
    /\ Geometry(root) = <<3, 2, 2, 3>>
    /\ root.children # <<>>
    /\ root.children[1].width = MatchParent
    /\ Geometry(root.children[1]) = <<3, 2, 2, 3>>

\* The container's own bound across its axis in the last measure, and
\* what the children ask for across it.
MaxCross ==
    IF Vertical THEN MaxOf(root.width, measure_args[1])
    ELSE MaxOf(root.height, measure_args[2])
IntrinsicCrossSizes ==
    [i \in DOMAIN root.children |->
        IntrinsicOf(IF Vertical THEN root.children[i].width
                    ELSE root.children[i].height)]
MainDimension(i) ==
    IF Vertical THEN root.children[i].height ELSE root.children[i].width
CrossDimension(i) ==
    IF Vertical THEN root.children[i].width ELSE root.children[i].height
Flexible == {i \in DOMAIN root.children : MainDimension(i).dim # "Absolute"}

\* The children's fixed sizes fit the container's bounds on both axes.
WithinBudget ==
    /\ MaxMain # None => Sum(IntrinsicMainSizes) <= MaxMain[1]
    /\ MaxCross # None => Largest(IntrinsicCrossSizes) <= MaxCross[1]

\* Some child resolves to 0 on an axis: it matches its parent across the
\* axis and the bound there is absent or 0, or it shares a remaining space
\* along the axis that leaves it nothing.
ZeroChild ==
    \/ /\ MaxCross \in {None, Some(0)}
       /\ \E i \in DOMAIN root.children : CrossDimension(i).dim # "Absolute"
    \/ /\ Flexible # {}
       /\ \/ MaxMain = None
          \/ (MaxMain[1] - Sum(IntrinsicMainSizes)) \div Cardinality(Flexible) = 0

\* C25: measure followed by layout of a LinearLayout completes when a
\* child resolves to size 0 on an axis (shown on a Vertical container
\* whose children's fixed sizes fit its bounds, so that no subtraction is
\* at stake).
C25_ZeroSizes ==
    (LinearRoot /\ Vertical /\ run >= 1 /\ WithinBudget /\ ZeroChild) =>
        layout_pc \notin {"measure_panicked", "layout_panicked"}

\* What does hold: a pass that completes left no child of a LinearLayout
\* with a size of 0.
NoZeroWhenMeasured ==
    (LinearRoot /\ Measured) =>
        \A i \in DOMAIN root.children :
            root.children[i].w > 0 /\ root.children[i].h > 0

\* The sum of the sizes along the axis of the first i children.
MainBefore(i) == Sum(SubSeq(MainSizes, 1, i))

PlaceOf(i) ==
    IF Vertical THEN <<layout_args[2], layout_args[1] + MainBefore(i - 1)>>
    ELSE <<layout_args[2] + MainBefore(i - 1), layout_args[1]>>

\* C27: after layout(top, left) of a measured LinearLayout the container
\* is at (x, y) = (left, top) and child i is at the container's origin
\* across the axis and, along it, at the origin plus the sizes of the
\* children before it: in insertion order, contiguous, without overlap.
C27_Placement ==
    (LinearRoot /\ layout_pc = "laid_out") =>
        /\ <<root.x, root.y>> = <<layout_args[2], layout_args[1]>>
        /\ \A i \in DOMAIN root.children :
              <<root.children[i].x, root.children[i].y>> = PlaceOf(i)

\* A Horizontal container of two children laid out at top 2, left 3: the
\* second child starts where the first, 2 wide, ends.
C27_Witness ==
    /\ LinearRoot
    /\ ~Vertical
    /\ layout_pc = "laid_out"
    /\ layout_args = <<2, 3>>
    /\ Len(root.children) = 2
    /\ root.children[1].w = 2
    /\ <<root.children[2].x, root.children[2].y>> = <<5, 2>>

\* What is left of the bound along the axis for each child without a
\* fixed size there.
Share == (MaxMain[1] - Sum(IntrinsicMainSizes)) \div Cardinality(Flexible)

\* Every child has along the axis what the split offers it: its fixed
\* size, or an equal share of what the fixed sizes leave of the bound.
SplitEvenly ==
    \A i \in DOMAIN root.children :
        MainSizes[i] = IF i \in Flexible THEN Share ELSE IntrinsicMainSizes[i]

\* C28: in both orientations, with a bound S along the axis that the
\* children's fixed sizes fit, min_main is the sum of the children's fixed
\* sizes along the axis, every child without one is offered
\* floor((S - min_main) / count_unsized) and every other child its own.
C28_Split ==
    (LinearRoot /\ Measured /\ MaxMain # None
        /\ Sum(IntrinsicMainSizes) <= MaxMain[1]) => SplitEvenly

\* What does hold: the split of a Vertical container.
VerticalSplit ==
    (LinearRoot /\ Vertical /\ Measured /\ MaxMain # None
        /\ Sum(IntrinsicMainSizes) <= MaxMain[1]) => SplitEvenly

\* ------------------------------------------------------------ the root tree
MaxCols == 7      \* widest terminal
MaxRows == 9      \* tallest terminal

\* TitleBar, WinBar and Input are all MatchParent wide and Absolute(1) high.
Bar == Leaf(MatchParent, Absolute(1))
\* The tree UIPlugin::new builds: title bar, frame, win bar, input.
NewRoot == Linear("Vertical", MatchParent, MatchParent,
                  <<Bar, Frame(<<>>), Bar, Bar>>)

\* termion::terminal_size() can report any size.
TerminalSizes == (0..MaxCols) \X (0..MaxRows)

\* init measures the root with the terminal's size ...
MeasureRoot ==
    /\ layout_pc = "built"
    /\ root = NewRoot
    /\ \E size \in TerminalSizes :
          /\ measure_args' = <<Some(size[1]), Some(size[2])>>
          /\ \E out \in Outcomes(
                    measure("debug", root, Some(size[1]), Some(size[2])),
                    measure("release", root, Some(size[1]), Some(size[2]))) :
                /\ build' = out[1]
                /\ root' = out[2].node
                /\ layout_pc' = IF out[2].ok THEN "measured"
                                ELSE "measure_panicked"
    /\ run' = 1
    /\ UNCHANGED <<layout_args, first_run>>
    /\ UNCHANGED <<parseVars, winVars, uiVars, keysVars, screenVars>>

\* ... and lays it out at (1, 1).
LayoutRoot ==
    /\ layout_pc = "measured"
    /\ layout_args' = <<1, 1>>
    /\ \E out \in Outcomes(layout("debug", root, 1, 1),
                           layout("release", root, 1, 1)) :
          /\ build' = out[1]
          /\ root' = out[2].node
          /\ layout_pc' = IF out[2].ok THEN "laid_out" ELSE "layout_panicked"
          /\ first_run' = IF out[2].ok THEN Some(out[2].node) ELSE first_run
    /\ UNCHANGED <<measure_args, run>>
    /\ UNCHANGED <<parseVars, winVars, uiVars, keysVars, screenVars>>

InitRoot ==
    /\ root = NewRoot
    /\ build = "unknown"
    /\ layout_pc = "built"
    /\ measure_args = <<>>
    /\ layout_args = <<>>
    /\ run = 0
    /\ first_run = None
    /\ NoParse
    /\ NoWin
    /\ NoUI
    /\ NoKeys
    /\ NoScreen

NextRoot == MeasureRoot \/ LayoutRoot

SpecRoot == InitRoot /\ [][NextRoot]_vars

\* The terminal's size, once init has read it.
Cols == measure_args[1][1]
Rows == measure_args[2][1]
Rect(v) == [x |-> v.x, y |-> v.y, w |-> v.w, h |-> v.h]

\* C33: for a terminal of W >= 1 columns and H >= 4 rows, init's
\* measure(W, H) and layout(1, 1) succeed and leave the title bar on row 1,
\* the frame on rows 2..H-2, the win bar on row H-1 and the input on row
\* H, each one W wide at column 1.
C33_RootTiling ==
    (layout_pc # "built" /\ Cols >= 1 /\ Rows >= 4) =>
        /\ layout_pc \in {"measured", "laid_out"}
        /\ layout_pc = "laid_out" =>
              /\ Rect(root.children[1]) = [x |-> 1, y |-> 1, w |-> Cols, h |-> 1]
              /\ Rect(root.children[2]) =
                     [x |-> 1, y |-> 2, w |-> Cols, h |-> Rows - 3]
              /\ Rect(root.children[3]) =
                     [x |-> 1, y |-> Rows - 1, w |-> Cols, h |-> 1]
              /\ Rect(root.children[4]) =
                     [x |-> 1, y |-> Rows, w |-> Cols, h |-> 1]

C33_Witness ==
    /\ layout_pc = "laid_out"
    /\ Cols = 3
    /\ Rows = 6
    /\ Rect(root.children[2]) = [x |-> 1, y |-> 2, w |-> 3, h |-> 3]

\* ======================================================================
\* BufferedWin (src/plugins/ui.rs): the scroll-back buffer of a window,
\* recv_message, page_up, page_down and the part of redraw that decides
\* which lines are painted.
\*
\* A message is [id, lines]: its id and the number of lines its text
\* displays as.  The message of id i displays as i lines, so that messages
\* of no line, one line and several lines are delivered.  Message hashes
\* its id alone (src/core.rs), and the dedup index is keyed by the id.
\* A call returns [ok, win, redrawn]: ok is FALSE when it panicked.
\* ======================================================================
MaxId == 3  \* the messages delivered have ids 0..MaxId
MaxH == 2   \* largest height of the window

Messages == {[id |-> i, lines |-> i] : i \in 0..MaxId}

\* View<BufferedWin<T>>::new, measured to the height h.
NewWin(h) ==
    [h |-> h, buf |-> <<>>, history |-> <<>>, view |-> 0, next_line |-> 0,
     screen |-> <<>>]

\* The number of lines of the flattened buffer.
LineCount(buf) == Sum([i \in DOMAIN buf |-> buf[i].lines])

\* The lines of a message, <<id, 1>>, <<id, 2>>, ... and the flattened
\* buffer: the lines of every message, in the order of buf.
LinesOf(message) == [j \in 1..message.lines |-> <<message.id, j>>]
RECURSIVE Flatten(_)
Flatten(buf) ==
    IF buf = <<>> THEN <<>> ELSE LinesOf(Head(buf)) \o Flatten(Tail(buf))

\* The rows written from the top: h lines at most, starting after skip.
Painted(w, skip) ==
    LET buffers == Flatten(w.buf)
    IN SubSeq(buffers, skip + 1, Min(Len(buffers), skip + w.h))

\* redraw, were it to show the last h lines wherever the view is.
redraw_IgnoresView(b, w) ==
    LET count == LineCount(w.buf)
        rows == Painted(w, IF count > w.h THEN count - w.h ELSE 0)
    IN [ok |-> TRUE,
        win |-> [w EXCEPT !.next_line = Len(rows), !.screen = rows],
        redrawn |-> TRUE]

\* redraw in build b: the lines to skip, then one line per row while any
\* is left.  usize underflow panics in a debug build; in a release build it
\* wraps and the skipping loop runs the buffer out.
redraw(b, w) ==
    LET count == LineCount(w.buf)
        skip == IF count > w.h
                THEN IF count - w.h >= w.view
                     THEN Some(count - w.h - w.view)
                     ELSE IF b = "debug" THEN None ELSE Some(count)
                ELSE Some(0)
    IN IF skip = None THEN [ok |-> FALSE, win |-> w, redrawn |-> FALSE]
       ELSE LET rows == Painted(w, skip[1])
            IN [ok |-> TRUE,
                win |-> [w EXCEPT !.next_line = Len(rows), !.screen = rows],
                redrawn |-> TRUE]

\* recv_message, were the index to count positions from 1.
recv_message_CountsFromOne(b, w, message, print) ==
    IF message.id \in DOMAIN w.history
    THEN [ok |-> TRUE, win |-> w, redrawn |-> FALSE]
    ELSE LET received == [w EXCEPT
                             !.history = (message.id :> Len(w.buf) + 1) @@ w.history,
                             !.buf = Append(w.buf, message)]
         IN IF print THEN redraw(b, received)
            ELSE [ok |-> TRUE, win |-> received, redrawn |-> FALSE]

\* recv_message, were it to buffer a message whatever the index holds.
recv_message_NoDedup(b, w, message, print) ==
    LET received == [w EXCEPT
                        !.history = (message.id :> Len(w.buf)) @@ w.history,
                        !.buf = Append(w.buf, message)]
    IN IF print THEN redraw(b, received)
       ELSE [ok |-> TRUE, win |-> received, redrawn |-> FALSE]

recv_message(b, w, message, print) ==
    IF message.id \in DOMAIN w.history
    THEN [ok |-> TRUE, win |-> w, redrawn |-> FALSE]
    ELSE LET received == [w EXCEPT
                             !.history = (message.id :> Len(w.buf)) @@ w.history,
                             !.buf = Append(w.buf, message)]
         IN IF print THEN redraw(b, received)
            ELSE [ok |-> TRUE, win |-> received, redrawn |-> FALSE]

\* page_up, were it to scroll by h without looking at the oldest line.
page_up_NoClamp(b, w) ==
    LET count == LineCount(w.buf)
    IN IF count < w.h THEN [ok |-> TRUE, win |-> w, redrawn |-> FALSE]
       ELSE redraw(b, [w EXCEPT !.view = w.view + w.h])

\* page_up, were it to scroll back one page and no further.
page_up_Once(b, w) ==
    LET count == LineCount(w.buf)
        max == count - w.h
    IN IF count < w.h THEN [ok |-> TRUE, win |-> w, redrawn |-> FALSE]
       ELSE redraw(b, [w EXCEPT !.view = IF w.view > 0 THEN w.view
                                         ELSE IF w.h < max THEN w.h ELSE max])

page_up(b, w) ==
    LET count == LineCount(w.buf)
        max == count - w.h
    IN IF count < w.h THEN [ok |-> TRUE, win |-> w, redrawn |-> FALSE]
       ELSE redraw(b, [w EXCEPT !.view = IF w.view + w.h < max
                                         THEN w.view + w.h ELSE max])

\* page_down, were it to stay where less than a page is left below.
page_down_Stays(b, w) ==
    redraw(b, [w EXCEPT !.view = IF w.view > w.h THEN w.view - w.h ELSE w.view])

page_down(b, w) ==
    redraw(b, [w EXCEPT !.view = IF w.view > w.h THEN w.view - w.h ELSE 0])

\* A call on the window has returned r, or panicked.
Returns(r) ==
    /\ win' = r.win
    /\ redrawn' = r.redrawn
    /\ win_pc' = IF r.ok THEN "ready" ELSE "panicked"

RecvMessage ==
    /\ win_pc = "ready"
    /\ \E message \in Messages, print \in BOOLEAN :
          /\ \E r \in {recv_message(b, win, message, print) : b \in Builds} :
                Returns(r)
          /\ call' = [op |-> "recv_message", id |-> message.id, print |-> print]
    /\ UNCHANGED <<parseVars, layoutVars, uiVars, keysVars, screenVars>>

PageUp ==
    /\ win_pc = "ready"
    /\ \E r \in {page_up(b, win) : b \in Builds} : Returns(r)
    /\ call' = [op |-> "page_up", id |-> 0, print |-> FALSE]
    /\ UNCHANGED <<parseVars, layoutVars, uiVars, keysVars, screenVars>>

PageDown ==
    /\ win_pc = "ready"
    /\ \E r \in {page_down(b, win) : b \in Builds} : Returns(r)
    /\ call' = [op |-> "page_down", id |-> 0, print |-> FALSE]
    /\ UNCHANGED <<parseVars, layoutVars, uiVars, keysVars, screenVars>>

\* The window is repainted as it is.
Redraw ==
    /\ win_pc = "ready"
    /\ \E r \in {redraw(b, win) : b \in Builds} : Returns(r)
    /\ call' = [op |-> "redraw", id |-> 0, print |-> FALSE]
    /\ UNCHANGED <<parseVars, layoutVars, uiVars, keysVars, screenVars>>

\* The user keeps the PageUp key down: page_up is called over and over,
\* and nothing else is.  win_pc is "paging_up" from the first such call.
RepeatPageUp ==
    /\ win_pc \in {"ready", "paging_up"}
    /\ \E r \in {page_up(b, win) : b \in Builds} :
          /\ win' = r.win
          /\ redrawn' = r.redrawn
          /\ win_pc' = IF r.ok THEN "paging_up" ELSE "panicked"
    /\ call' = [op |-> "page_up", id |-> 0, print |-> FALSE]
    /\ UNCHANGED <<parseVars, layoutVars, uiVars, keysVars, screenVars>>

\* The same with the PageDown key, which may take over from PageUp.
RepeatPageDown ==
    /\ win_pc \in {"ready", "paging_up", "paging_down"}
    /\ \E r \in {page_down(b, win) : b \in Builds} :
          /\ win' = r.win
          /\ redrawn' = r.redrawn
          /\ win_pc' = IF r.ok THEN "paging_down" ELSE "panicked"
    /\ call' = [op |-> "page_down", id |-> 0, print |-> FALSE]
    /\ UNCHANGED <<parseVars, layoutVars, uiVars, keysVars, screenVars>>

InitWin ==
    /\ win \in {NewWin(h) : h \in 0..MaxH}
    /\ win_pc = "ready"
    /\ redrawn = FALSE
    /\ call = [op |-> "new", id |-> 0, print |-> FALSE]
    /\ NoParse
    /\ NoLayout
    /\ NoUI
    /\ NoKeys
    /\ NoScreen

NextWin == RecvMessage \/ PageUp \/ PageDown \/ Redraw

SpecWin == InitWin /\ [][NextWin]_vars

\* The messages that arrive before the paging: of one, two, three lines.
PagedIds == {1, 2, 3}

\* Messages arrive, unprinted, until a paging key is held down.
Arrive == RecvMessage /\ ~call'.print /\ call'.id \in PagedIds

NextPaging == Arrive \/ RepeatPageUp \/ RepeatPageDown

\* Once a key is held down its calls keep coming.
HeldPageUp == win_pc = "paging_up" /\ RepeatPageUp
HeldPageDown == win_pc = "paging_down" /\ RepeatPageDown

SpecPaging ==
    /\ InitWin
    /\ [][NextPaging]_vars
    /\ WF_vars(HeldPageUp)
    /\ WF_vars(HeldPageDown)

\* ------------------------------------------------------------ window claims
Ready == win_pc = "ready"
Known(id) == id \in DOMAIN win.history
Copies(buf, id) == Cardinality({i \in DOMAIN buf : buf[i].id = id})

\* C17: recv_message with a message the dedup index already holds changes
\* nothing (buf, the index, the line count, view) and repaints nothing,
\* whatever the print flag; so buf never holds two copies of a message.
C17_Duplicate ==
    [][/\ (Ready /\ call'.op = "recv_message" /\ Known(call'.id)) =>
              (win' = win /\ ~redrawn' /\ Ready')
       /\ \A message \in Messages : Copies(win'.buf, message.id) <= 1]_vars

\* A message already buffered among others was delivered again with
\* print set, and nothing was repainted.
C17_Witness ==
    /\ Ready
    /\ call.op = "recv_message"
    /\ call.print
    /\ ~redrawn
    /\ Known(call.id)
    /\ Copies(win.buf, call.id) = 1
    /\ Len(win.buf) >= 2
    /\ win.view > 0

\* C18: for a window of fixed height h, whatever calls of recv_message,
\* page_up and page_down were made, 0 <= view <= max(0, lines - h); so
\* the number of lines redraw skips never underflows.
C18_ScrollBounds ==
    /\ win_pc # "panicked"
    /\ 0 <= win.view
    /\ win.view <= Max(0, LineCount(win.buf) - win.h)

\* The window was paged up to its oldest line.
C18_Witness ==
    /\ Ready
    /\ call.op = "page_up"
    /\ win.h >= 2
    /\ win.view >= 2
    /\ win.view = LineCount(win.buf) - win.h
    /\ Len(win.buf) >= 2

\* C19: page_up sets view to min(view + h, lines - h) when lines >= h and
\* changes and repaints nothing when lines < h; page_down sets view to
\* max(view - h, 0) without underflow; neither touches buf or the index.
C19_Paging ==
    [][LET lines == LineCount(win.buf)
       IN /\ (Ready /\ call'.op = "page_up") =>
                 /\ Ready'
                 /\ IF lines >= win.h
                    THEN /\ win'.view = Min(win.view + win.h, lines - win.h)
                         /\ redrawn'
                    ELSE /\ win'.view = win.view
                         /\ ~redrawn'
                 /\ win'.buf = win.buf
                 /\ win'.history = win.history
          /\ (Ready /\ call'.op = "page_down") =>
                 /\ Ready'
                 /\ win'.view = Max(win.view - win.h, 0)
                 /\ win'.buf = win.buf
                 /\ win'.history = win.history]_vars

\* The window was paged down and is still above its newest line.
C19_Witness ==
    /\ Ready
    /\ call.op = "page_down"
    /\ redrawn
    /\ win.h >= 1
    /\ win.view >= 1

\* The lines redraw is to show: the last h lines shifted back by view, or
\* every line when they all fit.
Shown(w) ==
    LET buffers == Flatten(w.buf)
        total == Len(buffers)
    IN IF total > w.h
       THEN [k \in 1..w.h |-> buffers[total - w.h - w.view + k]]
       ELSE buffers

\* C29: redraw paints on the window's rows, from the top, the lines
\* total-h-view .. total-view-1 of the flattened buffer when there are
\* more than h, and all the lines when there are not, whichever call
\* repaints; redraw itself changes neither buf, the index nor view.
C29_Redraw ==
    [][/\ (Ready /\ redrawn') =>
              /\ win'.screen = Shown(win')
              /\ win'.next_line = Len(win'.screen)
       /\ (Ready /\ call'.op = "redraw") =>
              /\ redrawn'
              /\ win'.buf = win.buf
              /\ win'.history = win.history
              /\ win'.view = win.view]_vars

\* A window of 2 rows holding 5 lines, scrolled back by 2, was repainted:
\* it shows the second and third line.
C29_Witness ==
    /\ call.op = "redraw"
    /\ redrawn
    /\ win.h = 2
    /\ LineCount(win.buf) = 5
    /\ win.view = 2
    /\ win.screen = SubSeq(Flatten(win.buf), 2, 3)

\* The index has one entry per element of buf, the element's position
\* (from 0), and no two elements of buf have the same identity.
IndexAgrees(w) ==
    /\ DOMAIN w.history = {w.buf[i].id : i \in DOMAIN w.buf}
    /\ \A i \in DOMAIN w.buf : w.history[w.buf[i].id] = i - 1
    /\ \A i, j \in DOMAIN w.buf : w.buf[i].id = w.buf[j].id => i = j

\* C30: buf and the dedup index agree in every state a call leaves; every
\* call leaves the elements already stored where they were, and
\* recv_message of a new identity appends the message at the end.
C30_IndexAgrees ==
    [][/\ IndexAgrees(win')
       /\ Len(win.buf) <= Len(win'.buf)
       /\ SubSeq(win'.buf, 1, Len(win.buf)) = win.buf
       /\ (Ready /\ call'.op = "recv_message" /\ ~Known(call'.id)) =>
              /\ Len(win'.buf) = Len(win.buf) + 1
              /\ win'.buf[Len(win'.buf)].id = call'.id]_vars

\* Message 1 arrived after message 2: it is the second element of buf and
\* the index says so.
C30_Witness ==
    /\ call.op = "recv_message"
    /\ call.id = 1
    /\ Len(win.buf) = 2
    /\ win.buf[1].id = 2
    /\ win.buf[2].id = 1
    /\ win.history[1] = 1
    /\ win.history[2] = 0

\* The view that shows the oldest line.
Top(w) == Max(0, LineCount(w.buf) - w.h)

\* C31: on a window of height h >= 1 that receives nothing more, repeated
\* page_up brings view to max(0, total_lines - h) and leaves it there, and
\* repeated page_down brings view to 0 and leaves it there.
C31_PagingProgress ==
    /\ <>[](win_pc = "paging_up" /\ win.h >= 1) => <>[](win.view = Top(win))
    /\ <>[](win_pc = "paging_down" /\ win.h >= 1) => <>[](win.view = 0)

\* PageUp held down on a window of one row has reached the oldest line,
\* three pages back.
C31_Witness ==
    /\ win_pc = "paging_up"
    /\ win.h = 1
    /\ win.view >= 3
    /\ win.view = Top(win)

\* ======================================================================
\* WinBar and UIPlugin (src/plugins/ui.rs): the windows, the current
\* window and the highlighted windows, as on_event drives them.
\*
\* ui is the UIPlugin as a record: windows maps a name to its BufferedWin,
\* win_bar is the WinBar's content, title_bar the TitleBar's window_name
\* and frame the name of the window that is the frame's child.
\* ======================================================================
Console == "console"
\* The peers chats are opened with and messages come from.
Peers == {"alice", "bob"}

\* View<WinBar>::set_current_window.
set_current_window(bar, window) ==
    [bar EXCEPT !.current_window = Some(window),
                !.highlighted = SelectSeq(@, LAMBDA w : w # window)]

\* View<WinBar>::highlight_window.
highlight_window(bar, window) ==
    IF \E i \in DOMAIN bar.highlighted : bar.highlighted[i] = window
    THEN bar
    ELSE [bar EXCEPT !.highlighted = Append(@, window)]

\* UIPlugin::switch in build b: [ok, ui], ok being FALSE for Err(()).
\* frame.redraw() repaints the window that became the frame's child.
switch(b, u, chat) ==
    LET named == [u EXCEPT !.current = chat]
    IN IF chat \in DOMAIN u.windows
       THEN [ok |-> TRUE,
             ui |-> [named EXCEPT
                        !.frame = Some(chat),
                        !.title_bar = chat,
                        !.win_bar = set_current_window(@, chat),
                        !.windows[chat] = redraw(b, @).win]]
       ELSE [ok |-> FALSE, ui |-> named]

\* Event::Message(message) for the window chat_name: "console" for a log
\* message, the peer for a chat message.  No window is created for a
\* name that has none: the handler reaches unreachable!().
OnMessage ==
    /\ ui_pc = "ready"
    /\ \E message \in Messages, chat_name \in {Console} \cup Peers,
          b \in Builds :
          /\ event' = [kind |-> "Message", name |-> chat_name,
                       id |-> message.id]
          /\ IF chat_name \notin DOMAIN ui.windows
             THEN /\ ui_pc' = "panicked"
                  /\ ui' = ui
             ELSE LET r == recv_message(b, ui.windows[chat_name], message,
                                     ui.current = chat_name)
                   received == [ui EXCEPT !.windows[chat_name] = r.win]
               IN /\ ui_pc' = IF r.ok THEN "ready" ELSE "panicked"
                  /\ ui' = IF ui.current # chat_name
                           THEN [received EXCEPT
                                    !.win_bar = highlight_window(@, chat_name)]
                           ELSE received
    /\ UNCHANGED <<parseVars, layoutVars, winVars, keysVars, screenVars>>

\* Event::Chat(jid), and Event::Join(jid) alike: switch to the window of
\* that name; an Err is dropped.
OnChat ==
    /\ ui_pc = "ready"
    /\ \E chat_name \in {Console} \cup Peers, b \in Builds :
          /\ event' = [kind |-> "Chat", name |-> chat_name, id |-> 0]
          /\ ui' = switch(b, ui, chat_name).ui
    /\ UNCHANGED ui_pc
    /\ UNCHANGED <<parseVars, layoutVars, winVars, keysVars, screenVars>>

\* The position of UIPlugin.current in windows_index: None when it is
\* not there, and the unwrap in next_window and prev_window panics.
Position(u) ==
    LET found == {i \in DOMAIN u.windows_index : u.windows_index[i] = u.current}
    IN IF found = {} THEN None
       ELSE Some(CHOOSE i \in found : \A j \in found : i <= j)

\* UIPlugin::add_window; View<WinBar>::add_window pushes the name.
add_window(u, name, window) ==
    [u EXCEPT !.windows = (name :> window) @@ @,
              !.windows_index = Append(@, name),
              !.win_bar.windows = Append(@, name)]

\* next_window, were it to step back.
next_window_Backwards(b, u) ==
    LET index == Position(u)
    IN IF index = None THEN [panicked |-> TRUE, ok |-> FALSE, ui |-> u]
       ELSE IF index[1] > 1
       THEN LET r == switch(b, u, u.windows_index[index[1] - 1])
            IN [panicked |-> FALSE, ok |-> r.ok, ui |-> r.ui]
       ELSE [panicked |-> FALSE, ok |-> FALSE, ui |-> u]

\* UIPlugin::next_window in build b: [panicked, ok, ui], ok being FALSE
\* for Err(()).  Sequences here start at 1, Vec at 0.
next_window(b, u) ==
    LET index == Position(u)
    IN IF index = None THEN [panicked |-> TRUE, ok |-> FALSE, ui |-> u]
       ELSE IF index[1] + 1 <= Len(u.windows_index)
       THEN LET r == switch(b, u, u.windows_index[index[1] + 1])
            IN [panicked |-> FALSE, ok |-> r.ok, ui |-> r.ui]
       ELSE [panicked |-> FALSE, ok |-> FALSE, ui |-> u]

\* UIPlugin::prev_window in build b.
prev_window(b, u) ==
    LET index == Position(u)
    IN IF index = None THEN [panicked |-> TRUE, ok |-> FALSE, ui |-> u]
       ELSE IF index[1] > 1
       THEN LET r == switch(b, u, u.windows_index[index[1] - 1])
            IN [panicked |-> FALSE, ok |-> r.ok, ui |-> r.ui]
       ELSE [panicked |-> FALSE, ok |-> FALSE, ui |-> u]

\* Key::PageUp and Key::PageDown in decode: current_window() unwraps the
\* window registered under UIPlugin.current, then pages it.
OnPageKey ==
    /\ ui_pc = "ready"
    /\ \E k \in {"PageUp", "PageDown"}, b \in Builds :
          /\ event' = [kind |-> k, name |-> ui.current, id |-> 0]
          /\ IF ui.current \notin DOMAIN ui.windows
             THEN /\ ui_pc' = "panicked"
                  /\ ui' = ui
             ELSE LET r == IF k = "PageUp"
                           THEN page_up(b, ui.windows[ui.current])
                           ELSE page_down(b, ui.windows[ui.current])
                  IN /\ ui_pc' = IF r.ok THEN "ready" ELSE "panicked"
                     /\ ui' = [ui EXCEPT !.windows[ui.current] = r.win]
    /\ UNCHANGED <<parseVars, layoutVars, winVars, keysVars, screenVars>>

\* Alt-ESC [ C and Alt-ESC [ D in decode: next_window and prev_window;
\* their Err is dropped.
OnWindowKey ==
    /\ ui_pc = "ready"
    /\ \E k \in {"NextWindow", "PrevWindow"}, b \in Builds :
          LET r == IF k = "NextWindow" THEN next_window(b, ui)
                   ELSE prev_window(b, ui)
          IN /\ event' = [kind |-> k, name |-> ui.current, id |-> 0]
             /\ ui_pc' = IF r.panicked THEN "panicked" ELSE "ready"
             /\ ui' = r.ui
    /\ UNCHANGED <<parseVars, layoutVars, winVars, keysVars, screenVars>>

\* UIPlugin::new, then init for a frame measured to the height h: the
\* console window is added and switched to.
InitUI ==
    /\ \E h \in 1..MaxH :
          ui = [windows |-> (Console :> NewWin(h)),
                windows_index |-> <<Console>>,
                current |-> Console,
                win_bar |-> [windows |-> <<Console>>,
                             current_window |-> Some(Console),
                             highlighted |-> <<>>],
                title_bar |-> Console,
                frame |-> Some(Console)]
    /\ ui_pc = "ready"
    /\ event = [kind |-> "init", name |-> Console, id |-> 0]
    /\ NoParse
    /\ NoLayout
    /\ NoWin
    /\ NoKeys
    /\ NoScreen

NextUI == OnMessage \/ OnChat \/ OnPageKey \/ OnWindowKey

SpecUI == InitUI /\ [][NextUI]_vars

\* ------------------------------------------------------------ navigation
MaxWindows == 3   \* most entries of windows_index

\* add_window(name, window) with a new, empty window.  In this source only
\* init calls it; here it is called at any moment, with any name, so that
\* next_window and prev_window have windows to step through.
AddWindow ==
    /\ ui_pc = "ready"
    /\ Len(ui.windows_index) < MaxWindows
    /\ \E name \in Peers :
          /\ event' = [kind |-> "AddWindow", name |-> name, id |-> 0]
          /\ ui' = add_window(ui, name, NewWin(ui.windows[Console].h))
    /\ UNCHANGED ui_pc
    /\ UNCHANGED <<parseVars, layoutVars, winVars, keysVars, screenVars>>

NextNavigation == AddWindow \/ OnWindowKey \/ OnChat

SpecNavigation == InitUI /\ [][NextNavigation]_vars

\* ------------------------------------------------------------ UI claims
Highlighted(window) ==
    \E i \in DOMAIN ui.win_bar.highlighted : ui.win_bar.highlighted[i] = window

\* C20: in every reachable state of the UI, the WinBar's current window is
\* not among its highlighted windows.
C20_CurrentNotHighlighted ==
    ui.win_bar.current_window # None =>
        ~Highlighted(ui.win_bar.current_window[1])

HighlightedIn(bar, window) ==
    \E i \in DOMAIN bar.highlighted : bar.highlighted[i] = window
Times(names, window) == Cardinality({i \in DOMAIN names : names[i] = window})

\* C21: highlight_window(name) adds name to the highlighted windows only
\* when name is neither the WinBar's current window nor highlighted
\* already; so no name is ever highlighted twice.
C21_HighlightGuard ==
    [][\A name \in {Console} \cup Peers :
          /\ (HighlightedIn(ui'.win_bar, name) /\ ~HighlightedIn(ui.win_bar, name))
                => ui.win_bar.current_window # Some(name)
          /\ Times(ui'.win_bar.highlighted, name) <= 1]_vars

\* What does hold: no name is highlighted twice.
HighlightedOnce ==
    \A name \in {Console} \cup Peers : Times(ui.win_bar.highlighted, name) <= 1

\* C22: switch(name) with a name no window is registered under returns an
\* error and changes nothing: current, the frame's child, the title bar's
\* name, the WinBar's current window and highlighted windows stay.
C22_FailedSwitch ==
    [][(ui_pc = "ready" /\ event'.kind = "Chat"
            /\ event'.name \notin DOMAIN ui.windows) => ui' = ui]_vars

\* What does hold: a failed switch changes nothing but current.
FailedSwitchKeepsViews ==
    [][(ui_pc = "ready" /\ event'.kind = "Chat"
            /\ event'.name \notin DOMAIN ui.windows) =>
          ui' = [ui EXCEPT !.current = event'.name]]_vars

\* C34: after init, UIPlugin.current always names a registered window (a
\* key of windows, an element of windows_index) and is the WinBar's
\* current window; so PageUp, PageDown and the window keys never fail on
\* a missing entry, whatever events came before.
C34_CurrentRegistered ==
    /\ ui_pc = "ready" =>
          /\ ui.current \in DOMAIN ui.windows
          /\ Position(ui) # None
          /\ ui.win_bar.current_window = Some(ui.current)
    /\ event.kind \in {"PageUp", "PageDown", "NextWindow", "PrevWindow"}
          => ui_pc # "panicked"

\* The failure itself: a key panics on the missing entry.
KeyPanicsOnMissingWindow ==
    /\ ui_pc = "panicked"
    /\ event.kind \in {"PageUp", "PageDown", "NextWindow", "PrevWindow"}
    /\ ui.current \notin DOMAIN ui.windows

Distinct(names) == \A i, j \in DOMAIN names : names[i] = names[j] => i = j

\* The window a step from position i by d leads to, None past either end.
Neighbour(u, d) ==
    LET target == Position(u)[1] + d
    IN IF target \in DOMAIN u.windows_index
       THEN Some(u.windows_index[target]) ELSE None

\* C35: window navigation does not wrap.  With current at position i of
\* windows_index and the names distinct, next_window makes the window at
\* i+1 current if there is one and otherwise returns Err and changes
\* nothing; prev_window likewise with i-1; and prev_window after a
\* successful next_window leads back.
C35_NoWrap ==
    [][(/\ ui_pc = "ready"
        /\ Position(ui) # None
        /\ Distinct(ui.windows_index)
        /\ event'.kind \in {"NextWindow", "PrevWindow"}) =>
          LET forward == event'.kind = "NextWindow"
              to == Neighbour(ui, IF forward THEN 1 ELSE -1)
          IN /\ ui_pc' = "ready"
             /\ to # None =>
                   /\ ui'.current = to[1]
                   /\ ui'.win_bar.current_window = to
                   /\ ui'.frame = to
                   /\ \A b \in Builds :
                         /\ (IF forward THEN next_window(b, ui)
                             ELSE prev_window(b, ui)).ok
                         /\ forward =>
                               /\ prev_window(b, ui').ok
                               /\ prev_window(b, ui').ui.current = ui.current
             /\ to = None =>
                   /\ ui' = ui
                   /\ \A b \in Builds :
                         ~(IF forward THEN next_window(b, ui)
                           ELSE prev_window(b, ui)).ok]_vars

\* next_window has stepped from the first window to the second of three.
C35_Witness ==
    /\ ui_pc = "ready"
    /\ event.kind = "NextWindow"
    /\ Len(ui.windows_index) = 3
    /\ Distinct(ui.windows_index)
    /\ ui.current = ui.windows_index[2]
    /\ ui.win_bar.current_window = Some(ui.current)

Stored(w, id) == \E i \in DOMAIN w.buf : w.buf[i].id = id

\* C36: Event::Message stores a log message in "console" and a chat
\* message in its peer's window.  If that window is the current one the
\* highlighted windows stay as they are; if not, its name is highlighted.
\* No other window's buffer changes.
C36_Routing ==
    [][(ui_pc = "ready" /\ event'.kind = "Message") =>
          /\ ui_pc' = "ready"
          /\ event'.name \in DOMAIN ui'.windows
          /\ Stored(ui'.windows[event'.name], event'.id)
          /\ \A other \in DOMAIN ui.windows \ {event'.name} :
                ui'.windows[other] = ui.windows[other]
          /\ IF ui.current = event'.name
             THEN ui'.win_bar.highlighted = ui.win_bar.highlighted
             ELSE HighlightedIn(ui'.win_bar, event'.name)]_vars

\* The failure itself: a chat message has made on_event panic.
ChatMessagePanics ==
    /\ ui_pc = "panicked"
    /\ event.kind = "Message"
    /\ event.name \in Peers

\* What does hold: a message for a registered window is routed as C36
\* says, unless repainting the window panics.
RegisteredRouting ==
    [][(/\ ui_pc = "ready"
        /\ event'.kind = "Message"
        /\ event'.name \in DOMAIN ui.windows
        /\ ui_pc' = "ready") =>
          /\ Stored(ui'.windows[event'.name], event'.id)
          /\ \A other \in DOMAIN ui.windows \ {event'.name} :
                ui'.windows[other] = ui.windows[other]
          /\ IF ui.current = event'.name
             THEN ui'.win_bar.highlighted = ui.win_bar.highlighted
             ELSE HighlightedIn(ui'.win_bar, event'.name)]_vars

\* C37: a redelivered message changes no UI state: when Event::Message
\* carries a message whose id its target window has stored already, the
\* window's buffer, the highlighted windows, the current window and the
\* title bar stay as they are, also when the target is not the current
\* window and has been visited since the first delivery.
C37_Redelivery ==
    [][(/\ ui_pc = "ready"
        /\ event'.kind = "Message"
        /\ event'.name \in DOMAIN ui.windows
        /\ event'.id \in DOMAIN ui.windows[event'.name].history) =>
          /\ ui_pc' = "ready"
          /\ ui' = ui]_vars

\* Where the failure leads: the console holds the one message it was
\* sent, has been painted while it was current, and is highlighted by the
\* delivery that found UIPlugin.current elsewhere.
RedeliveryHighlights ==
    /\ ui_pc = "ready"
    /\ event.kind = "Message"
    /\ event.name = Console
    /\ ui.current # Console
    /\ Len(ui.windows[Console].buf) = 1
    /\ ui.windows[Console].buf[1].id = event.id
    /\ ui.windows[Console].screen # <<>>
    /\ HighlightedIn(ui.win_bar, Console)

\* ======================================================================
\* KeyCodec (src/plugins/ui.rs) and the input line it edits
\* ======================================================================

MaxHistory == 1    \* lines the input history holds at most
MaxSubmit == 2     \* items pushed on the queue at most

\* The characters typed: "/" starts a command line, "'" opens or closes a
\* quoted stretch, "a" is any other character.
Chars == {"/", "'", "a"}

\* What the input line holds while it is typed: nothing, a command line,
\* a command line with an unpaired quote, a line that is no command.
Lines == {<<>>, <<"/">>, <<"/", "'">>, <<"a">>, <<"p">>}

\* What is typed at the password prompt, and nowhere else: a password is
\* made of a character no other line holds, so that it can be told from
\* the rest wherever it turns up.
PasswordChars == {"p"}

Keys ==
    {[key |-> "Char", c |-> c] : c \in Chars \cup PasswordChars}
        \cup {[key |-> k, c |-> ""] :
                 k \in {"Enter", "Backspace", "Left", "Right", "Up", "Down",
                        "CtrlC"}}

\* written is the text of the view's last write to the screen, cursor
\* movements and blanks left out.
NewInput ==
    [buf |-> <<>>, tmp_buf |-> None, password |-> FALSE, history |-> <<>>,
     history_index |-> 0, written |-> <<>>]

\* <View<Input> as ViewTrait>::redraw: the row is blanked and buf written.
Input_redraw(i) == [i EXCEPT !.written = i.buf]

key(i, c) ==
    [i EXCEPT !.buf = Append(i.buf, c),
              !.written = IF i.password THEN <<>> ELSE <<c>>]

delete(i) ==
    [i EXCEPT !.buf = IF i.buf = <<>> THEN <<>>
                      ELSE SubSeq(i.buf, 1, Len(i.buf) - 1),
              !.written = <<>>]

clear(i) ==
    [i EXCEPT !.buf = <<>>, !.tmp_buf = None, !.password = FALSE,
              !.written = <<>>]

password(i) ==
    [clear(i) EXCEPT !.password = TRUE, !.written = <<"password: ">>]

validate(i) ==
    clear(IF ~i.password
          THEN [i EXCEPT !.history = Append(i.history, i.buf),
                         !.history_index = Len(i.history) + 1]
          ELSE i)

\* previous and next give [ok, input]; ok is FALSE when the call panics.
previous(i) ==
    IF i.history_index = 0 THEN [ok |-> TRUE, input |-> i]
    ELSE [ok |-> TRUE,
          input |-> Input_redraw([i EXCEPT
              !.tmp_buf = IF i.tmp_buf = None THEN Some(i.buf) ELSE i.tmp_buf,
              !.history_index = i.history_index - 1,
              \* history is 0-based in the source
              !.buf = i.history[i.history_index]])]

next(i) ==
    IF i.history_index = Len(i.history) THEN [ok |-> TRUE, input |-> i]
    ELSE IF i.history_index + 1 = Len(i.history)
         THEN IF i.tmp_buf = None THEN [ok |-> FALSE, input |-> i]
              ELSE [ok |-> TRUE,
                    input |-> Input_redraw(
                        [i EXCEPT !.history_index = i.history_index + 1,
                                  !.buf = i.tmp_buf[1],
                                  !.tmp_buf = None])]
         ELSE [ok |-> TRUE,
               input |-> Input_redraw(
                   [i EXCEPT !.history_index = i.history_index + 1,
                             !.buf = i.history[i.history_index + 2]])]

\* shell_words::split on a line without blanks: the quotes pair up and
\* vanish, one word is left; an unpaired quote is a parse error.
split(buf) ==
    IF Times(buf, "'") % 2 = 1 THEN [ok |-> FALSE, words |-> <<>>]
    ELSE [ok |-> TRUE, words |-> <<SelectSeq(buf, LAMBDA c : c # "'")>>]

\* The items of the queue: Ok(CommandOrMessage::Command(command)),
\* Err(CommandError::Parse(_)) and Err(CommandError::Io(_)).  n is the
\* rank of the push that queued the item: 1 for the first, 2 for the
\* second; it tells two submissions of the same line apart.
CommandItem(command) ==
    [kind |-> "Command", command |-> Some(command), n |-> 0]
ParseError == [kind |-> "Parse", command |-> None, n |-> 0]
IoError == [kind |-> "Io", command |-> None, n |-> 0]

\* self.queue.push(item)
push(st, item) ==
    [st EXCEPT !.queue = Append(st.queue, [item EXCEPT !.n = st.pushed + 1]),
               !.pushed = st.pushed + 1]

\* The arm of Key::Char('\n').
enter(st) ==
    LET buf == st.input.buf
        submitted ==
            IF st.input.password
            THEN IF st.password_command = None THEN [st EXCEPT !.ok = FALSE]
                 ELSE LET command == st.password_command[1]
                      IN [push(st, CommandItem(
                              [command EXCEPT !.args = Append(@, buf)]))
                          EXCEPT !.password_command = None]
            ELSE IF buf # <<>> /\ buf[1] = "/"
                 THEN LET splitted == split(buf)
                      IN IF splitted.ok
                         THEN push(st, CommandItem(
                                  [name |-> Tail(splitted.words[1]),
                                   args |-> Tail(splitted.words)]))
                         ELSE push(st, ParseError)
                 ELSE st
    IN IF submitted.ok /\ buf # <<>>
       THEN [submitted EXCEPT !.input = validate(@)]
       ELSE submitted

\* One turn of decode's loop over the keys of its buffer.
decode_key(st, k) ==
    CASE k.key = "Backspace" -> [st EXCEPT !.input = delete(@)]
      [] k.key \in {"Left", "Right"} -> [st EXCEPT !.input.written = <<>>]
      [] k.key = "Up" ->
            LET r == previous(st.input)
            IN [st EXCEPT !.input = r.input, !.ok = r.ok]
      [] k.key = "Down" ->
            LET r == next(st.input)
            IN [st EXCEPT !.input = r.input, !.ok = r.ok]
      [] k.key = "Enter" -> enter(st)
      [] k.key = "Char" -> [st EXCEPT !.input = key(@, k.c)]
      [] k.key = "CtrlC" -> push(st, IoError)

KeyState ==
    [input |-> input, password_command |-> password_command,
     queue |-> queue, pushed |-> pushed, ok |-> TRUE]

\* decode takes the next key of its buffer.
DecodeKey ==
    /\ keys_pc = "ready"
    /\ \E k \in Keys :
          LET st == decode_key(KeyState, k)
          IN /\ k.key = "Char" => (k.c \in PasswordChars <=> input.password)
             /\ st.input.buf \in Lines
             /\ Len(st.input.history) <= MaxHistory
             /\ st.pushed <= MaxSubmit
             /\ input' = st.input
             /\ password_command' = st.password_command
             /\ queue' = st.queue
             /\ pushed' = st.pushed
             /\ keys_pc' = IF st.ok THEN "ready" ELSE "panicked"
    /\ decoding' = TRUE
    /\ UNCHANGED returned
    /\ UNCHANGED <<parseVars, layoutVars, winVars, uiVars, screenVars>>

\* decode has taken every key: it clears the buffer and returns what
\* queue.pop() gives, the last item of the queue.
DecodePop ==
    /\ keys_pc = "ready"
    /\ decoding' = FALSE
    /\ IF queue = <<>>
       THEN UNCHANGED <<queue, returned>>
       ELSE /\ queue' = SubSeq(queue, 1, Len(queue) - 1)
            /\ returned' = Append(returned, queue[Len(queue)].n)
    /\ UNCHANGED <<input, password_command, pushed, keys_pc>>
    /\ UNCHANGED <<parseVars, layoutVars, winVars, uiVars, screenVars>>

\* The commands that ask for a password.
PasswordCommands == {[name |-> <<"c">>, args |-> <<>>]}

\* UIPlugin::read_password, called between two decode calls.
ReadPassword ==
    /\ keys_pc = "ready"
    /\ ~decoding
    /\ \E command \in PasswordCommands :
          password_command' = Some(command)
    /\ input' = password(input)
    /\ UNCHANGED <<queue, decoding, pushed, returned, keys_pc>>
    /\ UNCHANGED <<parseVars, layoutVars, winVars, uiVars, screenVars>>

InitKeys ==
    /\ input = NewInput
    /\ password_command = None
    /\ queue = <<>>
    /\ decoding = FALSE
    /\ pushed = 0
    /\ returned = <<>>
    /\ keys_pc = "ready"
    /\ NoParse
    /\ NoLayout
    /\ NoWin
    /\ NoUI
    /\ NoScreen

NextKeys == DecodeKey \/ DecodePop \/ ReadPassword

SpecKeys == InitKeys /\ [][NextKeys]_vars

\* ------------------------------------------------------------ claims

Ranks(items) == [i \in DOMAIN items |-> items[i].n]

\* C24: the items decode pushes are returned in the order they were
\* pushed, each exactly once: the k items returned so far are the first,
\* the second, ... the k-th pushed.
C24_Fifo == returned = [i \in DOMAIN returned |-> i]

\* What holds of the queue as the code is: every item pushed so far is
\* either returned or still queued, and none twice.
ReturnedOnce ==
    \A n \in 1..pushed : Times(returned, n) + Times(Ranks(queue), n) = 1

\* ======================================================================
\* The shared screen (src/plugins/ui.rs): who borrows it, and when
\* ======================================================================
\* Every view holds the same Rc<RefCell<Screen>>.  A function is modelled
\* by the steps that touch that RefCell, in program order: "borrow" is
\* `self.screen.borrow_mut()`, "drop" is the end of the scope that owns
\* the guard, and any other step is a call of the function so named.
\* Where the path through a function depends on data, Bodies gives one
\* sequence per path.
Borrowing == <<"borrow", "drop">>

Bodies(f) ==
    CASE f = "Input::key" -> {Borrowing}
      [] f = "Input::delete" -> {Borrowing}
      [] f = "Input::clear" -> {Borrowing}
      [] f = "Input::left" -> {<<>>, Borrowing}
      [] f = "Input::right" -> {<<>>, Borrowing}
      [] f = "Input::password" -> {<<"Input::clear", "borrow", "drop">>}
      [] f = "Input::validate" -> {<<"Input::clear">>}
      [] f = "Input::previous" -> {<<>>, <<"Input::redraw">>}
      [] f = "Input::next" -> {<<>>, <<"Input::redraw">>}
      [] f = "Input::redraw" -> {Borrowing}
      [] f = "TitleBar::set_name" -> {<<"TitleBar::redraw">>}
      [] f = "TitleBar::redraw" -> {Borrowing}
      [] f = "WinBar::add_window" -> {<<"WinBar::redraw">>}
      [] f = "WinBar::set_current_window" -> {<<"WinBar::redraw">>}
      [] f = "WinBar::highlight_window" -> {<<>>, <<"WinBar::redraw">>}
      [] f = "WinBar::redraw" -> {Borrowing}
      [] f = "BufferedWin::recv_message" -> {<<>>, <<"BufferedWin::redraw">>}
      [] f = "BufferedWin::page_up" -> {<<>>, <<"BufferedWin::redraw">>}
      [] f = "BufferedWin::page_down" -> {<<"BufferedWin::redraw">>}
      [] f = "BufferedWin::redraw" -> {Borrowing}
      [] f = "FrameLayout::redraw" -> {<<>>, <<"BufferedWin::redraw">>}
      [] f = "UIPlugin::switch" ->
            {<<>>, <<"TitleBar::set_name", "WinBar::set_current_window",
                     "FrameLayout::redraw">>}
      [] f = "UIPlugin::add_window" -> {<<"WinBar::add_window">>}
      [] f = "UIPlugin::next_window" -> {<<>>, <<"UIPlugin::switch">>}
      [] f = "UIPlugin::prev_window" -> {<<>>, <<"UIPlugin::switch">>}
      [] f = "read_password" -> {<<"Input::password">>}
      [] f = "init" ->
            {<<"borrow", "drop", "UIPlugin::add_window",
               "TitleBar::set_name", "Input::redraw", "TitleBar::redraw",
               "WinBar::redraw", "UIPlugin::switch">>}
      [] f = "on_event" ->
            {<<>>, <<"WinBar::redraw">>, <<"BufferedWin::recv_message">>,
             <<"BufferedWin::recv_message", "WinBar::highlight_window">>,
             <<"UIPlugin::switch">>}
      [] f = "decode" ->
            {<<>>, <<"Input::delete">>, <<"Input::left">>,
             <<"Input::right">>, <<"Input::previous">>, <<"Input::next">>,
             <<"BufferedWin::page_up">>, <<"BufferedWin::page_down">>,
             <<"Input::validate">>, <<"UIPlugin::next_window">>,
             <<"UIPlugin::prev_window">>, <<"Input::key">>}
      [] OTHER -> {}

\* The entry points the rest of the program calls.
Handlers == {"init", "on_event", "decode", "read_password"}

Running == frames # <<>> /\ screen_pc = "ready"
TopFrame == frames[Len(frames)]
NextStep == Head(TopFrame)
Advance == [frames EXCEPT ![Len(frames)] = Tail(TopFrame)]

\* A handler is entered when none is running: the program is single
\* threaded and no handler yields.
Enter ==
    /\ screen_pc = "ready"
    /\ frames = <<>>
    /\ \E h \in Handlers : \E b \in Bodies(h) :
          /\ handler' = h
          /\ frames' = <<b>>
    /\ UNCHANGED <<held, screen_pc>>
    /\ UNCHANGED <<parseVars, layoutVars, winVars, uiVars, keysVars>>

\* RefCell::borrow_mut: panics when the cell is already borrowed.
BorrowMut ==
    /\ Running
    /\ TopFrame # <<>>
    /\ NextStep = "borrow"
    /\ IF held = 0
          THEN /\ held' = 1
               /\ frames' = Advance
               /\ screen_pc' = screen_pc
          ELSE /\ screen_pc' = "panicked"
               /\ UNCHANGED <<held, frames>>
    /\ UNCHANGED handler
    /\ UNCHANGED <<parseVars, layoutVars, winVars, uiVars, keysVars>>

\* A guard that outlives its scope.
Drop_Kept ==
    /\ Running
    /\ TopFrame # <<>>
    /\ NextStep = "drop"
    /\ held' = held
    /\ frames' = Advance
    /\ UNCHANGED <<handler, screen_pc>>
    /\ UNCHANGED <<parseVars, layoutVars, winVars, uiVars, keysVars>>

\* The RefMut guard goes out of scope.
Drop ==
    /\ Running
    /\ TopFrame # <<>>
    /\ NextStep = "drop"
    /\ held' = held - 1
    /\ frames' = Advance
    /\ UNCHANGED <<handler, screen_pc>>
    /\ UNCHANGED <<parseVars, layoutVars, winVars, uiVars, keysVars>>

Call ==
    /\ Running
    /\ TopFrame # <<>>
    /\ NextStep \notin {"borrow", "drop"}
    /\ \E b \in Bodies(NextStep) : frames' = Append(Advance, b)
    /\ UNCHANGED <<handler, held, screen_pc>>
    /\ UNCHANGED <<parseVars, layoutVars, winVars, uiVars, keysVars>>

Return ==
    /\ Running
    /\ TopFrame = <<>>
    /\ frames' = SubSeq(frames, 1, Len(frames) - 1)
    /\ handler' = IF Len(frames) = 1 THEN "idle" ELSE handler
    /\ UNCHANGED <<held, screen_pc>>
    /\ UNCHANGED <<parseVars, layoutVars, winVars, uiVars, keysVars>>

InitScreen ==
    /\ handler = "idle"
    /\ frames = <<>>
    /\ held = 0
    /\ screen_pc = "ready"
    /\ NoParse
    /\ NoLayout
    /\ NoWin
    /\ NoUI
    /\ NoKeys

NextScreen == Enter \/ BorrowMut \/ Drop \/ Call \/ Return

SpecScreen == InitScreen /\ [][NextScreen]_vars

\* C32: the screen has one writer at every moment: whenever a function
\* is about to call borrow_mut on the screen, no borrow of it is held, so
\* no handler ever panics on the RefCell; and a function that holds the
\* borrow calls nothing before it drops it.
C32_SingleWriter ==
    /\ screen_pc = "ready"
    /\ held \in {0, 1}
    /\ (Running /\ TopFrame # <<>> /\ NextStep = "borrow") => held = 0
    /\ (Running /\ TopFrame # <<>> /\ held = 1) => NextStep = "drop"

\* read_password has cleared the input line, dropped that borrow, and now
\* holds the one that writes the prompt.
C32_Witness ==
    /\ handler = "read_password"
    /\ Len(frames) = 2
    /\ held = 1
    /\ TopFrame = <<"drop">>

\* C38: the input history stays consistent under every sequence of keys
\* and password prompts: history_index lies in 0..len(history), and
\* whenever it is below len(history) the draft tmp_buf is there, so that
\* next() does not fail when it comes back to the draft.
C38_HistoryConsistent ==
    keys_pc = "ready" =>
        /\ input.history_index \in 0..Len(input.history)
        /\ input.history_index < Len(input.history) => input.tmp_buf # None

\* The failure itself: Down has panicked on the missing draft.
NextPanics ==
    /\ keys_pc = "panicked"
    /\ input.history_index < Len(input.history)
    /\ input.tmp_buf = None

\* What does hold: the index stays within the history.
HistoryIndexInRange == input.history_index \in 0..Len(input.history)

\* C39: from the password prompt until the password is submitted, no
\* character typed at the prompt is written to the screen, and no typed
\* password is appended to the history, whatever keys are pressed.
C39_PasswordHidden ==
    /\ \A i \in DOMAIN input.written : input.written[i] \notin PasswordChars
    /\ \A n \in DOMAIN input.history :
          \A i \in DOMAIN input.history[n] :
              input.history[n][i] \notin PasswordChars

\* What does hold: no password reaches the history.
PasswordNotInHistory ==
    \A n \in DOMAIN input.history :
        \A i \in DOMAIN input.history[n] :
            input.history[n][i] \notin PasswordChars

\* C40: the input being in password mode implies that password_command
\* is present, so Enter at the prompt never fails on a missing command;
\* this for every key sequence, Enter on an empty password included.
C40_PromptHasCommand == input.password => password_command # None

\* The failure itself: Enter at the prompt has panicked on the missing
\* command.
EnterPanics ==
    /\ keys_pc = "panicked"
    /\ input.password
    /\ password_command = None

====
